---- MODULE Spec2Model ----
(***************************************************************************)
(* HttpTransport of the FoxNose TypeScript SDK (src/http.ts): one          *)
(* request() call, its attempt loop sendWithRetries, the timeout timer     *)
(* that races each fetch, the delay between attempts and the error that    *)
(* ends the call.                                                          *)
(*                                                                         *)
(* Durations are integers in milliseconds.  A number the code holds in     *)
(* seconds (backoffFactor, the value parseFloat reads from Retry-After)    *)
(* is held here in thousandths, so that "x * 1000" of the code is the      *)
(* integer itself.                                                         *)
(***************************************************************************)
EXTENDS Integers, Sequences, FiniteSets, TLC

\* ------------------------------------------------------------------ bounds
\* Largest retryConfig.attempts a caller passes.
MaxAttempts == 3
MaxItems == 3
MaxConcurrency == 3
MaxUrlLen == 4
MaxCalls == 2
MaxParams == 2

\* ----------------------------------------------------------- input domains
\* HTTP status of a received response: both sides of the 400 boundary.
Statuses == {200, 399, 400, 503}

\* retryConfig.statusCodes
StatusCodeSets == {{}, {503}, {400, 503}}

\* retryConfig.methods, as the caller spells them.
MethodSets == {{}, {"GET", "PUT"}, {"get"}}

\* The method argument of request(), as the caller spells it.
Methods == {"GET", "get", "POST"}

\* retryConfig.backoffFactor, in thousandths of a second.
BackoffFactors == {0, 500, 1000}

\* Header values are sequences of characters.  null: the header is absent.
null == <<"null">>
RetryAfterValues ==
    { <<>>,
      <<"0">>,
      <<"2">>,
      <<"1", ".", "5">>,
      <<".", "5">>,
      <<"-", "1">>,
      <<"2", "x">>,
      <<"x">>,
      <<"-">> }

\* What fetch rejects with: an Error with a message, or any thrown value.
FetchErrors ==
    { [isError |-> TRUE,  message |-> "Connection reset", value |-> ""],
      [isError |-> FALSE, message |-> "", value |-> "string-error"] }
AbortError ==
    [isError |-> TRUE, message |-> "This operation was aborted", value |-> ""]

AuthKinds == {"anonymous", "jwt"}

\* --------------------------------------------------------- pure functions
Digit == {"0", "1", "2", "3", "4", "5", "6", "7", "8", "9"}

DigitVal(c) ==
    CASE c = "0" -> 0 [] c = "1" -> 1 [] c = "2" -> 2 [] c = "3" -> 3
      [] c = "4" -> 4 [] c = "5" -> 5 [] c = "6" -> 6 [] c = "7" -> 7
      [] c = "8" -> 8 [] c = "9" -> 9

\* String.prototype.toUpperCase on the method names in use.
toUpperCase(m) ==
    CASE m = "get"  -> "GET"
      [] m = "put"  -> "PUT"
      [] m = "post" -> "POST"
      [] OTHER      -> m

RECURSIVE DigitRun(_, _)
\* Number of consecutive decimal digits of s from index i on.
DigitRun(s, i) ==
    IF i <= Len(s) /\ s[i] \in Digit THEN 1 + DigitRun(s, i + 1) ELSE 0

RECURSIVE DecimalValue(_, _, _)
\* Value of the n digits of s that start at index i.
DecimalValue(s, i, n) ==
    IF n = 0 THEN 0
    ELSE 10 * DecimalValue(s, i, n - 1) + DigitVal(s[i + n - 1])

\* The n fraction digits of s from index i on, in thousandths (three digits
\* are kept: the header values in use have no more).
FractionMilli(s, i, n) ==
    LET d(k) == IF k <= n THEN DigitVal(s[i + k - 1]) ELSE 0
    IN  100 * d(1) + 10 * d(2) + d(3)

\* parseFloat: an optional sign, then the longest prefix "digits", "digits.",
\* "digits.digits" or ".digits"; whatever follows is ignored; NaN when there
\* is no such prefix.  The result is in thousandths.  (Exponents and
\* "Infinity" need letters that no header value in use starts a number with.)
parseFloat(s) ==
    LET signed   == Len(s) >= 1 /\ s[1] \in {"-", "+"}
        start    == IF signed THEN 2 ELSE 1
        sign     == IF signed /\ s[1] = "-" THEN -1 ELSE 1
        nInt     == DigitRun(s, start)
        dotAt    == start + nInt
        hasDot   == dotAt <= Len(s) /\ s[dotAt] = "."
        nFrac    == IF hasDot THEN DigitRun(s, dotAt + 1) ELSE 0
        isNumber == nInt > 0 \/ nFrac > 0
    IN  IF isNumber
        THEN [nan |-> FALSE,
              milli |-> sign * (1000 * DecimalValue(s, start, nInt)
                                + FractionMilli(s, dotAt + 1, nFrac))]
        ELSE [nan |-> TRUE, milli |-> 0]

RECURSIVE Pow2(_)
Pow2(n) == IF n <= 0 THEN 1 ELSE 2 * Pow2(n - 1)

Max(a, b) == IF a >= b THEN a ELSE b

\* A JavaScript string is truthy when it is not null and not empty.
Truthy(s) == s # null /\ s # <<>>


\* ------------------------------------------------------------------ state
VARIABLES
    retry,        \* this.retry: [attempts, backoffFactor, statusCodes, methods]
    auth,         \* this.auth, by kind
    method,       \* request(method, ...)
    parseJson,    \* options.parseJson ?? true
    pc,           \* where the call stands
    attempt,      \* the loop counter of sendWithRetries
    fetchCalls,   \* number of fetch() calls made by this request
    inFlight,     \* attempts whose fetch promise is pending
    timers,       \* attempts whose timeoutId is armed
    aborted,      \* attempts whose AbortController was aborted
    responded,    \* attempts whose fetch resolved with a response
    response,     \* the iteration's `response`
    caught,       \* the iteration's caught `err`
    delay,        \* the iteration's `delay`: <<>> or <<ms>>
    sleepMs,      \* the argument of the iteration's sleep() call: <<>> or <<ms>>
    sleepPending, \* the timer of sleep() is pending
    sleeps,       \* number of sleep() calls
    buildCalls,   \* number of auth.buildHeaders invocations
    sent,         \* Authorization value of each fetch call, in order
    outcome       \* how request() settled

\* Several request() calls running on the one transport: the locals of each.
VARIABLES
    calls         \* call -> [pc, method, attempt, fetchCalls, timers,
                  \*          sleepPending, log, outcome]

\* One batchUpsertResources call of the management client.
VARIABLES
    items,        \* the external_id of each input item, in input order
    options,      \* [maxConcurrency, failFast, onProgress]
    bpc,          \* where the batch call stands
    i,            \* the loop variable `i`
    batch,        \* the indices of the window handed to Promise.all, in order
    requests,     \* index -> state of the item's upsert request
    promise,      \* index -> state of the promise of processItem
    succeeded,    \* the `succeeded` array: index of each result's item
    failed,       \* the `failed` array
    completed,    \* the counter `completed`
    progress,     \* the arguments of each onProgress call, in order
    sends         \* the indices of the requests sent, in order

\* One application of a function of the library to inputs.
VARIABLES
    fn,           \* the function applied, "none" before
    arg,          \* its inputs
    ret           \* what it returned or threw

\* The variables of the single call, of the concurrent calls, of the batch,
\* of the function application.
svars == <<retry, auth, method, parseJson, pc, attempt, fetchCalls, inFlight,
           timers, aborted, responded, response, caught, delay, sleepMs,
           sleepPending, sleeps, buildCalls, sent, outcome>>
bvars == <<items, options, bpc, i, batch, requests, promise, succeeded, failed,
           completed, progress, sends>>
fvars == <<fn, arg, ret>>
vars == <<svars, calls, bvars, fvars>>

NoResponse == [status |-> 0, retryAfter |-> null, bodyOk |-> TRUE]
NoError    == [isError |-> FALSE, message |-> "", value |-> ""]
NoOutcome  == [kind |-> "none", statusCode |-> 0, message |-> "", from |-> 0]

Responses ==
    [status : Statuses, retryAfter : RetryAfterValues \cup {null}, bodyOk : BOOLEAN]

\* The calls that run concurrently, and a call that has not been made.
Calls == {1, 2}
IdleCall == [pc |-> "idle", method |-> "GET", attempt |-> 0, fetchCalls |-> 0,
             timers |-> {}, sleepPending |-> FALSE, log |-> <<>>,
             outcome |-> NoOutcome]
NoCalls == [c \in Calls |-> IdleCall]

\* An option that was not given.
undefined == <<>>

\* No function is applied.
FnIdle ==
    /\ fn = "none"
    /\ arg = <<>>
    /\ ret = <<>>

\* No batch call is made.
BatchIdle ==
    /\ items = <<>>
    /\ options = [maxConcurrency |-> undefined, failFast |-> undefined,
                  onProgress |-> "undefined"]
    /\ bpc = "idle"
    /\ i = 0
    /\ batch = <<>>
    /\ requests = <<>>
    /\ promise = <<>>
    /\ succeeded = <<>>
    /\ failed = <<>>
    /\ completed = 0
    /\ progress = <<>>
    /\ sends = <<>>

\* ----------------------------------------------------------- the transport
\* Mutant: the boundary of an error status put at 300.
IsErrorStatus_from300(status) == status >= 300

\* response.status >= 400
IsErrorStatus(status) == status >= 400

\* Mutant: attempt < attempts in the loop test.
LoopContinues_strict(att) == att < retry.attempts

\* for (...; attempt <= this.retry.attempts; ...)
LoopContinues(att) == att <= retry.attempts

\* Mutant: the method test dropped.
shouldRetry_anyMethod(m, statusCode) == statusCode \in retry.statusCodes

shouldRetry(m, statusCode) ==
    IF toUpperCase(m) \notin retry.methods
    THEN FALSE
    ELSE statusCode \in retry.statusCodes

\* Mutant: attempt <= attempts instead of attempt < attempts.
RetriesResponse_offByOne(m, statusCode, att) ==
    shouldRetry(m, statusCode) /\ att <= retry.attempts

\* Mutant: the remaining attempts are not tested.
RetriesResponse_noAttemptTest(m, statusCode, att) == shouldRetry(m, statusCode)

\* this.shouldRetry(method, response.status) && attempt < this.retry.attempts
RetriesResponse(m, statusCode, att) ==
    shouldRetry(m, statusCode) /\ att < retry.attempts

\* Mutant: the Retry-After header is not consulted.
computeDelay_ignoresHeader(att, retryAfter) ==
    retry.backoffFactor * Pow2(Max(att - 1, 0))

\* Mutant: the exponent is attempt instead of attempt - 1.
computeDelay_attemptExponent(att, retryAfter) ==
    IF Truthy(retryAfter)
    THEN LET parsed == parseFloat(retryAfter)
         IN  IF ~parsed.nan THEN parsed.milli ELSE 0
    ELSE retry.backoffFactor * Pow2(Max(att, 0))

computeDelay(att, retryAfter) ==
    IF Truthy(retryAfter)
    THEN LET parsed == parseFloat(retryAfter)
         IN  IF ~parsed.nan THEN parsed.milli ELSE 0
    ELSE retry.backoffFactor * Pow2(Max(att - 1, 0))

\* err instanceof Error ? err.message : String(err)
ErrorMessage(err) == IF err.isError THEN err.message ELSE err.value

\* Mutant: attempt <= attempts instead of attempt < attempts.
handleTransportError_offByOne(err, m, att) ==
    LET canRetry == toUpperCase(m) \in retry.methods /\ att <= retry.attempts
    IN  IF ~canRetry
        THEN [throws |-> TRUE, message |-> ErrorMessage(err), delay |-> 0]
        ELSE [throws |-> FALSE, message |-> "", delay |-> computeDelay(att, null)]

\* Mutant: an aborted (timed out) fetch is never retried.
handleTransportError_abortTerminal(err, m, att) ==
    LET canRetry == /\ toUpperCase(m) \in retry.methods
                    /\ att < retry.attempts
                    /\ err.message # "This operation was aborted"
    IN  IF ~canRetry
        THEN [throws |-> TRUE, message |-> ErrorMessage(err), delay |-> 0]
        ELSE [throws |-> FALSE, message |-> "", delay |-> computeDelay(att, null)]

\* Either throws FoxnoseTransportError(message) or returns the delay.
handleTransportError(err, m, att) ==
    LET canRetry == toUpperCase(m) \in retry.methods /\ att < retry.attempts
    IN  IF ~canRetry
        THEN [throws |-> TRUE, message |-> ErrorMessage(err), delay |-> 0]
        ELSE [throws |-> FALSE, message |-> "", delay |-> computeDelay(att, null)]

\* setTimeout(() => controller.abort(), this.config.timeout) of attempt id
setTimeout(ts, id) == ts \cup {id}

\* Mutant: the timer is left armed.
clearTimeout_noop(ts, id) == ts

\* clearTimeout(timeoutId)
clearTimeout(ts, id) == ts \ {id}

\* Mutant: the request is built once and reused by the later attempts.
BuildsRequest_firstOnly(att) == att = 1

\* Whether the iteration of attempt att calls buildRequest, and with it
\* auth.buildHeaders: every iteration does.
BuildsRequest(att) == TRUE

\* The n-th token of the provider (a counting provider: "token-n").
getToken(n) == n
EmptyToken == 0

\* Mutant: JWTAuth does not test the token for emptiness.
buildHeaders_noCheck(tok) ==
    IF auth = "anonymous"
    THEN [throws |-> FALSE, Authorization |-> <<>>]
    ELSE [throws |-> FALSE, Authorization |-> <<"Bearer", tok>>]

\* AuthStrategy.buildHeaders: AnonymousAuth returns {}, JWTAuth the scheme
\* and the provider's token, and throws on an empty token.
buildHeaders(tok) ==
    IF auth = "anonymous"
    THEN [throws |-> FALSE, Authorization |-> <<>>]
    ELSE IF tok = EmptyToken
         THEN [throws |-> TRUE, Authorization |-> <<>>]
         ELSE [throws |-> FALSE, Authorization |-> <<"Bearer", tok>>]


\* Mutant: sleep() is called and not awaited.
AwaitsSleep_not == FALSE

\* `await this.sleep(delay)`: the loop goes on only when the sleep is over.
AwaitsSleep == TRUE

\* ---------------------------------------------------------------- actions
\* No request() call has been made on the transport.
SingleIdle ==
    /\ method = "GET"
    /\ parseJson = TRUE
    /\ pc = "idle"
    /\ attempt = 0
    /\ fetchCalls = 0
    /\ inFlight = {}
    /\ timers = {}
    /\ aborted = {}
    /\ responded = {}
    /\ response = NoResponse
    /\ caught = NoError
    /\ delay = <<>>
    /\ sleepMs = <<>>
    /\ sleepPending = FALSE
    /\ sleeps = 0
    /\ buildCalls = 0
    /\ sent = <<>>
    /\ outcome = NoOutcome

Init ==
    /\ retry \in [attempts : (0 - 1)..MaxAttempts,
                  backoffFactor : BackoffFactors,
                  statusCodes : StatusCodeSets,
                  methods : MethodSets]
    /\ auth \in AuthKinds
    /\ SingleIdle
    /\ calls = NoCalls
    /\ BatchIdle
    /\ FnIdle

\* request(method, path, options): enters sendWithRetries, attempt = 1.
Request(m, pj) ==
    /\ pc = "idle"
    /\ method' = m
    /\ parseJson' = pj
    /\ attempt' = 1
    /\ pc' = "loop"
    /\ UNCHANGED <<calls, bvars, fvars, retry, auth, fetchCalls, inFlight, timers, aborted, responded,
                   response, caught, delay, sleepMs, sleepPending, sleeps,
                   buildCalls, sent, outcome>>

\* `throw e`: request() rejects.
Raise(kind, statusCode, message) ==
    /\ pc' = "raised"
    /\ outcome' = [kind |-> kind, statusCode |-> statusCode, message |-> message,
                   from |-> attempt]

\* `continue` after computing `delay`: sleep when delay > 0, then attempt++.
Continue(d) ==
    /\ delay' = <<d>>
    /\ IF d > 0
       THEN /\ sleepMs' = <<d>>
            /\ sleepPending' = TRUE
            /\ sleeps' = sleeps + 1
            /\ IF AwaitsSleep
               THEN pc' = "sleeping" /\ attempt' = attempt
               ELSE pc' = "loop" /\ attempt' = attempt + 1
       ELSE /\ pc' = "loop"
            /\ attempt' = attempt + 1
            /\ UNCHANGED <<sleepMs, sleepPending, sleeps>>
    /\ UNCHANGED outcome

\* The loop test failed: throw FoxnoseTransportError('All retry attempts exhausted').
Exhausted ==
    /\ pc = "loop"
    /\ ~LoopContinues(attempt)
    /\ Raise("FoxnoseTransportError", 0, "All retry attempts exhausted")
    /\ UNCHANGED <<calls, bvars, fvars, retry, auth, method, parseJson, attempt, fetchCalls, inFlight,
                   timers, aborted, responded, response, caught, delay, sleepMs,
                   sleepPending, sleeps, buildCalls, sent>>

\* One iteration up to `await fetch(url, init)`: buildRequest (with
\* auth.buildHeaders), the controller and its timer, the fetch call.
BeginAttempt(tok) ==
    /\ pc = "loop"
    /\ LoopContinues(attempt)
    /\ response' = NoResponse
    /\ caught' = NoError
    /\ delay' = <<>>
    /\ sleepMs' = <<>>
    /\ LET builds == BuildsRequest(attempt) \/ sent = <<>>
           h      == IF builds THEN buildHeaders(tok)
                     ELSE [throws |-> FALSE, Authorization |-> sent[Len(sent)]]
       IN  /\ buildCalls' = IF builds THEN buildCalls + 1 ELSE buildCalls
           /\ IF h.throws
              THEN /\ Raise("Error", 0, "Token provider returned an empty token")
                   /\ UNCHANGED <<fetchCalls, inFlight, timers, sent>>
              ELSE /\ timers' = setTimeout(timers, attempt)
                   /\ fetchCalls' = fetchCalls + 1
                   /\ inFlight' = inFlight \cup {attempt}
                   /\ sent' = Append(sent, h.Authorization)
                   /\ pc' = "fetching"
                   /\ UNCHANGED outcome
    /\ UNCHANGED <<calls, bvars, fvars, retry, auth, method, parseJson, attempt, aborted, responded,
                   sleepPending, sleeps>>

\* maybeDecodeResponse, called by request() on the response returned by
\* sendWithRetries: the raw response, or the decoded body; response.text()
\* is awaited outside any try.
maybeDecodeResponse(r) ==
    IF ~parseJson
    THEN /\ pc' = "returned"
         /\ outcome' = [kind |-> "response", statusCode |-> r.status,
                        message |-> "", from |-> attempt]
    ELSE IF r.bodyOk
         THEN /\ pc' = "returned"
              /\ outcome' = [kind |-> "payload", statusCode |-> r.status,
                             message |-> "", from |-> attempt]
         ELSE Raise("TypeError", 0, "body read failed")

\* fetch resolved with response r: `finally` clears the timer, then the
\* status decides between retry, raiseAPIError and return.
FetchResolves(r) ==
    /\ pc = "fetching"
    /\ attempt \in inFlight
    /\ inFlight' = inFlight \ {attempt}
    /\ responded' = responded \cup {attempt}
    /\ timers' = clearTimeout(timers, attempt)
    /\ response' = r
    /\ IF IsErrorStatus(r.status)
       THEN IF RetriesResponse(method, r.status, attempt)
            THEN Continue(computeDelay(attempt, r.retryAfter))
            ELSE /\ Raise("FoxnoseAPIError", r.status, "")
                 /\ UNCHANGED <<attempt, delay, sleepMs, sleepPending, sleeps>>
       ELSE /\ maybeDecodeResponse(r)
            /\ UNCHANGED <<attempt, delay, sleepMs, sleepPending, sleeps>>
    /\ UNCHANGED <<calls, bvars, fvars, retry, auth, method, parseJson, fetchCalls, aborted, caught,
                   buildCalls, sent>>

\* The catch block: clearTimeout, handleTransportError, sleep, continue; the
\* finally block clears the timer once more.
CatchBlock(err, ts) ==
    /\ inFlight' = inFlight \ {attempt}
    /\ caught' = err
    /\ timers' = clearTimeout(clearTimeout(ts, attempt), attempt)
    /\ LET h == handleTransportError(err, method, attempt)
       IN  IF h.throws
           THEN /\ Raise("FoxnoseTransportError", 0, h.message)
                /\ UNCHANGED <<attempt, delay, sleepMs, sleepPending, sleeps>>
           ELSE Continue(h.delay)

\* fetch rejected: no HTTP response was produced.
FetchRejects(err) ==
    /\ pc = "fetching"
    /\ attempt \in inFlight
    /\ CatchBlock(err, timers)
    /\ UNCHANGED <<calls, bvars, fvars, retry, auth, method, parseJson, fetchCalls, aborted, responded,
                   response, buildCalls, sent>>

\* An armed timer fires: controller.abort().  A fetch pending on that signal
\* rejects with an AbortError, which the catch block handles.
TimeoutFires(t) ==
    /\ t \in timers
    /\ aborted' = aborted \cup {t}
    /\ IF pc = "fetching" /\ t = attempt /\ t \in inFlight
       THEN CatchBlock(AbortError, timers \ {t})
       ELSE /\ timers' = timers \ {t}
            /\ UNCHANGED <<pc, attempt, inFlight, caught, delay, sleepMs,
                           sleepPending, sleeps, outcome>>
    /\ UNCHANGED <<calls, bvars, fvars, retry, auth, method, parseJson, fetchCalls, responded,
                   response, buildCalls, sent>>

\* The timer of sleep() fires; the awaiting loop goes on with attempt++.
SleepElapses ==
    /\ sleepPending
    /\ sleepPending' = FALSE
    /\ IF pc = "sleeping"
       THEN pc' = "loop" /\ attempt' = attempt + 1
       ELSE UNCHANGED <<pc, attempt>>
    /\ UNCHANGED <<calls, bvars, fvars, retry, auth, method, parseJson, fetchCalls, inFlight, timers,
                   aborted, responded, response, caught, delay, sleepMs, sleeps,
                   buildCalls, sent, outcome>>

Next ==
    \/ \E m \in Methods, pj \in BOOLEAN : Request(m, pj)
    \/ Exhausted
    \/ \E tok \in {getToken(buildCalls + 1)}
                  \cup (IF auth = "jwt" THEN {EmptyToken} ELSE {}) : BeginAttempt(tok)
    \/ \E r \in Responses : FetchResolves(r)
    \/ \E err \in FetchErrors : FetchRejects(err)
    \/ \E t \in timers : TimeoutFires(t)
    \/ SleepElapses

Spec == Init /\ [][Next]_vars

\* The pending fetch settles: it resolves, rejects, or its timer aborts it.
Settles ==
    \/ \E r \in Responses : FetchResolves(r)
    \/ \E err \in FetchErrors : FetchRejects(err)
    \/ \E t \in timers : TimeoutFires(t)

\* The single call under the scheduling of the event loop: synchronous code
\* runs on, every pending fetch settles or is aborted, every sleep elapses.
FairSpec ==
    /\ Spec
    /\ WF_vars(Exhausted)
    /\ WF_vars(\E tok \in {getToken(buildCalls + 1), EmptyToken} : BeginAttempt(tok))
    /\ WF_vars(Settles)
    /\ WF_vars(SleepElapses)


\* ================================================================= claims
\* The method is retry-eligible: upper-cased, it is in retryPolicy.methods.
Eligible == toUpperCase(method) \in retry.methods

\* The attempt the values of this iteration (response, caught, delay) belong
\* to: `continue` has already incremented the counter when pc = "loop".
Iter == IF pc = "loop" /\ delay # <<>> THEN attempt - 1 ELSE attempt

Received == response # NoResponse

\* ---- C1 ----
C1_Inv ==
    (retry.attempts >= 1 /\ pc # "idle") =>
        /\ attempt \in 1..retry.attempts
        /\ fetchCalls <= retry.attempts
        /\ fetchCalls <= attempt
        /\ (Received /\ response.status < 400) =>
              /\ fetchCalls = attempt
              /\ pc \in {"returned", "raised"}
              /\ (~parseJson \/ response.bodyOk) =>
                    /\ pc = "returned"
                    /\ outcome.from = attempt
                    /\ outcome.statusCode = response.status

C1_Step ==
    (Received /\ response.status < 400) => fetchCalls' = fetchCalls

C2_IneligibleMethodRaisesAtOnce ==
    (pc # "idle" /\ ~Eligible) =>
        /\ sleeps = 0
        /\ fetchCalls <= 1
        /\ (Received /\ response.status >= 400) =>
              /\ pc = "raised"
              /\ outcome.kind = "FoxnoseAPIError"
              /\ outcome.statusCode = response.status
              /\ fetchCalls = 1

C2_Witness ==
    /\ ~Eligible
    /\ retry.methods # {}
    /\ retry.attempts > 1
    /\ response.status = 503
    /\ 503 \in retry.statusCodes
    /\ pc = "raised"
    /\ outcome.kind = "FoxnoseAPIError"

\* ---- C3 ----
\* C3: when the fetch of attempt k rejects, request() raises a transport error
\* with that failure's message if the method is not retry-eligible or k =
\* attempts, and otherwise goes on to attempt k+1; so a method that is not
\* eligible has made exactly one call, and an eligible one whose every fetch
\* rejected ends after exactly N calls with the last failure's message.
C3_NetworkFailureRetriedOrTransportError ==
    (caught # NoError) =>
        /\ IF ~Eligible \/ Iter = retry.attempts
           THEN /\ pc = "raised"
                /\ outcome.kind = "FoxnoseTransportError"
                /\ outcome.message =
                      (IF caught.isError THEN caught.message ELSE caught.value)
                /\ fetchCalls = Iter
           ELSE /\ pc \in {"sleeping", "loop"}
                /\ Iter < retry.attempts
                /\ pc = "loop" => attempt = Iter + 1
        /\ ~Eligible => fetchCalls = 1
        /\ (Eligible /\ responded = {} /\ pc = "raised") =>
              fetchCalls = retry.attempts

C3_Witness ==
    /\ Eligible
    /\ retry.attempts = 3
    /\ responded = {}
    /\ fetchCalls = 3
    /\ pc = "raised"
    /\ outcome.kind = "FoxnoseTransportError"
    /\ outcome.message = "Connection reset"

\* ---- C4 ----
C4_Inv ==
    /\ (Received /\ response.status >= 400) =>
          IF Eligible /\ response.status \in retry.statusCodes
                /\ Iter < retry.attempts
          THEN pc \in {"sleeping", "loop"}
          ELSE /\ pc = "raised"
               /\ outcome.kind = "FoxnoseAPIError"
               /\ outcome.statusCode = response.status
               /\ outcome.from = Iter
    /\ pc = "returned" => outcome.statusCode < 400
    /\ outcome.kind = "FoxnoseTransportError" => ~Received

C4_Step ==
    outcome.kind = "FoxnoseAPIError" =>
        /\ outcome' = outcome
        /\ fetchCalls' = fetchCalls
        /\ pc' = "raised"

\* C4: a response with status >= 400 is retried only when the method is
\* eligible, the status is in statusCodes and attempt < attempts; otherwise
\* request() raises an API error carrying the status of that very response.
\* Such a response is never returned (parseJson on or off), never becomes a
\* transport error, also when all N attempts got retryable statuses, and
\* nothing is sent once the API error is raised.
C4_ErrorResponseRetriedOrAPIError == []C4_Inv /\ [][C4_Step]_vars

C4_Witness ==
    /\ Eligible
    /\ retry.attempts = 3
    /\ responded = {1, 2, 3}
    /\ response.status = 503
    /\ 503 \in retry.statusCodes
    /\ pc = "raised"
    /\ outcome.kind = "FoxnoseAPIError"
    /\ outcome.statusCode = 503


\* ---- C5, C6 ----
\* This iteration got an error response and decided to retry.
RetriedAfterResponse == Received /\ response.status >= 400 /\ delay # <<>>

\* The time the loop waits before the next attempt: sleep() is called only
\* for a delay > 0.
Wait == IF sleepMs = <<>> THEN 0 ELSE sleepMs[1]

\* The header values that are decimal numbers, with their value in
\* thousandths of a second, i.e. in milliseconds.
NumericHeaders ==
    { <<"0">>, <<"2">>, <<"1", ".", "5">>, <<".", "5">>, <<"-", "1">> }

MillisOf(h) ==
    CASE h = <<"0">>           -> 0
      [] h = <<"2">>           -> 2000
      [] h = <<"1", ".", "5">> -> 1500
      [] h = <<".", "5">>      -> 500
      [] h = <<"-", "1">>      -> 0 - 1000

\* The header values that do not parse as a number at all.
NonNumericHeaders == { <<>>, <<"x">>, <<"-">> }

Backoff(k) == retry.backoffFactor * Pow2(k - 1)

\* C5 as stated: after a retried error response at attempt k the wait before
\* attempt k+1 is the numeric Retry-After value in seconds, and
\* backoffFactor x 2^(k-1) seconds when the header is absent.
C5_DelayIsRetryAfterOrBackoff ==
    RetriedAfterResponse =>
        /\ response.retryAfter \in NumericHeaders =>
              Wait = MillisOf(response.retryAfter)
        /\ response.retryAfter = null => Wait = Backoff(Iter)

\* C5 amended: the computed delay is the Retry-After value x 1000 ms when the
\* header is present and numeric (whatever the backoff factor) and
\* backoffFactor x 2^(k-1) x 1000 ms when it is absent; the loop sleeps for
\* that delay only when it is > 0, so a negative value gives no wait at all.
C5_DelayIsNonNegativeRetryAfterOrBackoff ==
    RetriedAfterResponse =>
        /\ pc \in {"sleeping", "loop"}
        /\ response.retryAfter \in NumericHeaders =>
              delay = <<MillisOf(response.retryAfter)>>
        /\ response.retryAfter = null => delay = <<Backoff(Iter)>>
        /\ Wait = IF delay[1] > 0 THEN delay[1] ELSE 0
        /\ pc = "sleeping" => delay[1] > 0

C5_Witness ==
    /\ RetriedAfterResponse
    /\ pc = "sleeping"
    /\ attempt = 2
    /\ response.retryAfter = <<"1", ".", "5">>
    /\ retry.backoffFactor = 1000
    /\ sleepMs = <<1500>>

\* C6: after a retried error response whose Retry-After header is present
\* and does not parse as a number (the empty value included), the next
\* attempt follows with no wait.
C6_UnparseableRetryAfterMeansNoWait ==
    (RetriedAfterResponse /\ response.retryAfter \in NonNumericHeaders) =>
        /\ Wait = 0
        /\ ~sleepPending

\* ---- C7 ----
C7_Inv ==
    /\ Cardinality(inFlight) <= 1
    /\ pc = "fetching" =>
          /\ inFlight = {attempt}
          /\ fetchCalls = attempt
          /\ ~sleepPending
    /\ pc # "fetching" => inFlight = {}

C7_Step ==
    fetchCalls' # fetchCalls =>
        /\ fetchCalls' = fetchCalls + 1
        /\ attempt = fetchCalls + 1
        /\ inFlight = {}
        /\ inFlight' = {attempt}
        /\ ~sleepPending
        /\ fetchCalls >= 1 => (Received \/ caught # NoError)

\* C7: the attempts of a request() are strictly ordered, one network call
\* each: the call of attempt k+1 starts only when the call of attempt k has
\* settled (response, failure or abort) and the sleep after it is over, and
\* never are two calls of the request in flight.
C7_AttemptsSequential == []C7_Inv /\ [][C7_Step]_vars

C7_Witness ==
    /\ pc = "fetching"
    /\ attempt = 3
    /\ sleeps = 2
    /\ inFlight = {3}

\* ---- C8 ----
\* C8: while the fetch of attempt k is pending exactly the timer of attempt k
\* is armed; no timer is armed on any exit from the attempt: not while the
\* request sleeps or stands between attempts, not after it returned or raised.
C8_OneTimerArmedOnlyWhileFetching ==
    /\ Cardinality(timers) <= 1
    /\ pc = "fetching" => timers = {attempt}
    /\ pc # "fetching" => timers = {}

C8_Witness ==
    /\ pc = "sleeping"
    /\ attempt = 2
    /\ responded = {1}
    /\ caught # NoError
    /\ timers = {}

\* ---- C9 ----
C9_Inv ==
    /\ aborted \cap responded = {}
    /\ timers \subseteq inFlight

C9_Step ==
    aborted' # aborted =>
        /\ pc = "fetching"
        /\ aborted' = aborted \cup {attempt}
        /\ attempt \notin responded'
        /\ fetchCalls' = fetchCalls
        /\ caught' = AbortError
        /\ IF Eligible /\ attempt < retry.attempts
           THEN /\ pc' \in {"sleeping", "loop"}
                /\ delay' = <<Backoff(attempt)>>
           ELSE /\ pc' = "raised"
                /\ outcome'.kind = "FoxnoseTransportError"
                /\ outcome'.message = AbortError.message

\* C9: a timer that fires aborts the pending fetch of its own attempt, and that
\* attempt is then handled as a network failure is (retried with the backoff
\* delay under the policy, else raised as a transport error); an attempt that
\* got its response is never aborted, and only a pending fetch has an armed
\* timer.
C9_TimeoutRacesFetch == []C9_Inv /\ [][C9_Step]_vars

C9_Witness ==
    /\ aborted = {1}
    /\ responded = {2}
    /\ pc = "returned"

\* ---- C10 ----
HeadersOfAttempt(k) == IF auth = "jwt" THEN <<"Bearer", getToken(k)>> ELSE <<>>

\* C10 as stated: a request that made m network calls has invoked
\* buildHeaders m times.
C10_BuildCallsEqualFetchCalls == buildCalls = fetchCalls

C10_Inv ==
    /\ Len(sent) = fetchCalls
    /\ buildCalls = fetchCalls + (IF outcome.kind = "Error" THEN 1 ELSE 0)
    /\ \A k \in 1..Len(sent) : sent[k] = HeadersOfAttempt(k)

C10_Step ==
    buildCalls' # buildCalls =>
        /\ pc = "loop"
        /\ buildCalls' = buildCalls + 1
        /\ buildCalls' = attempt
        /\ \/ fetchCalls' = fetchCalls + 1 /\ pc' = "fetching"
           \/ fetchCalls' = fetchCalls /\ pc' = "raised" /\ outcome'.kind = "Error"

\* C10 amended: buildHeaders is invoked exactly once per attempt, before that
\* attempt's network call; when it throws, the attempt makes no network call
\* and the request ends.  A request that made m network calls has invoked
\* buildHeaders m times, m + 1 times when the last invocation threw, and
\* attempt k is sent with the headers computed at attempt k.
C10_HeadersBuiltOncePerAttempt == []C10_Inv /\ [][C10_Step]_vars

C10_Witness ==
    /\ auth = "jwt"
    /\ fetchCalls = 3
    /\ buildCalls = 3
    /\ sent = << <<"Bearer", 1>>, <<"Bearer", 2>>, <<"Bearer", 3>> >>


\* ------------------------------------------------------------------- C11
EmptyTokenMessage == "Token provider returned an empty token"

C11_Inv ==
    /\ \A k \in 1..Len(sent) : sent[k] # <<"Bearer", EmptyToken>>
    /\ outcome.kind = "Error" =>
           /\ pc = "raised"
           /\ outcome.message = EmptyTokenMessage
           /\ outcome.from = attempt
           /\ fetchCalls = attempt - 1
           /\ attempt \notin (timers \cup inFlight \cup aborted \cup responded)
           /\ timers = {}
           /\ delay = <<>>
           /\ ~sleepPending

C11_Step ==
    /\ (outcome'.kind = "Error" /\ outcome.kind # "Error") =>
           /\ pc = "loop"
           /\ fetchCalls' = fetchCalls
           /\ timers' = timers
           /\ sleeps' = sleeps
           /\ attempt' = attempt
    /\ outcome.kind = "Error" =>
           /\ fetchCalls' = fetchCalls
           /\ attempt' = attempt
           /\ sleeps' = sleeps
           /\ outcome' = outcome

\* C11: when the auth strategy fails to produce headers at attempt k, the
\* request fails with that error at once: no fetch is made and no timer is
\* armed for attempt k, no delay is computed or slept, no later attempt is
\* started, whatever the method and the attempts that remain; no fetch is
\* ever sent with an empty token.
C11_AuthFailureEndsRequestAtOnce == []C11_Inv /\ [][C11_Step]_vars

C11_Witness ==
    /\ outcome.kind = "Error"
    /\ Eligible
    /\ attempt = 2
    /\ retry.attempts > attempt
    /\ fetchCalls = 1

\* ------------------------------------------------------------------- C12
\* The three error kinds: the authentication/construction error raised by
\* buildHeaders, the transport error, the API error.
ThreeKinds == {"Error", "FoxnoseTransportError", "FoxnoseAPIError"}

\* The attempt under way has failed: its fetch threw, or the status is >= 400.
AttemptFailed ==
    \/ caught # NoError
    \/ Received /\ IsErrorStatus(response.status)

\* C12: every failure reaches the caller as exactly one of the three error
\* kinds, and a failed attempt is followed by a further attempt or ends the
\* call with a raised error.
C12_EveryFailureIsOneOfThreeKinds ==
    /\ pc = "raised" =>
           /\ outcome.kind \in ThreeKinds
           /\ outcome.kind = "Error" => outcome.message = EmptyTokenMessage
    /\ AttemptFailed => pc \in {"sleeping", "loop", "raised"}

\* ------------------------------------------------------------------- C13
Terminal == pc \in {"returned", "raised"}

\* The four terminal outcomes: the returned payload (or raw response), the
\* API error, the transport error, the auth error.
FourOutcomes ==
    {"payload", "response", "FoxnoseAPIError", "FoxnoseTransportError", "Error"}

\* C13: provided every fetch settles or is aborted and every sleep elapses,
\* every call eventually terminates in one of the four terminal outcomes.
C13_TerminatesInOneOfFour ==
    (pc # "idle") ~> (Terminal /\ outcome.kind \in FourOutcomes)

\* Termination alone: every call eventually returns or raises.
C13_Terminates == (pc # "idle") ~> Terminal

\* ------------------------------------------------------------------- C15
ExhaustedMessage == "All retry attempts exhausted"

\* C15: 'All retry attempts exhausted' is never raised when attempts >= 1;
\* with attempts <= 0 the call raises exactly this transport error, and
\* makes no fetch and no buildHeaders call.
C15_ExhaustedOnlyWithoutAttempts ==
    /\ retry.attempts >= 1 => outcome.message # ExhaustedMessage
    /\ retry.attempts <= 0 =>
           /\ fetchCalls = 0
           /\ buildCalls = 0
           /\ timers = {}
           /\ pc \in {"idle", "loop", "raised"}
           /\ pc = "raised" =>
                  outcome = [kind |-> "FoxnoseTransportError", statusCode |-> 0,
                             message |-> ExhaustedMessage, from |-> 1]

C15_Witness ==
    /\ retry.attempts = 0
    /\ pc = "raised"
    /\ outcome.message = ExhaustedMessage


\* ---- C26 ----
\* The method is eligible when method and entries are compared without regard
\* to case: both upper-cased.
FoldedEligible == toUpperCase(method) \in {toUpperCase(x) : x \in retry.methods}

\* The attempt the response, the caught error and the delay belong to.
DecidedAt == IF delay # <<>> /\ pc # "sleeping" THEN attempt - 1 ELSE attempt

\* The iteration went on to a retry (the delay was computed) instead of
\* raising.
Retried == delay # <<>>

\* C26: retry eligibility treats methods case-insensitively: for every casing
\* of the method passed to request() and every casing of the entries of
\* retryPolicy.methods, an error response is retried exactly when the method,
\* upper-cased, is among the upper-cased entries, the status is listed and
\* attempts remain; a network failure exactly when the method, upper-cased, is
\* among the upper-cased entries and attempts remain.
C26_MethodsCaseInsensitive ==
    /\ (Received /\ IsErrorStatus(response.status)) =>
          (Retried <=> /\ FoldedEligible
                       /\ response.status \in retry.statusCodes
                       /\ DecidedAt < retry.attempts)
    /\ (caught # NoError) =>
          (Retried <=> FoldedEligible /\ DecidedAt < retry.attempts)

\* ---- C31 ----
\* C31: when no Retry-After value applies (the response carries no such
\* header), the delay computed after attempt k is backoffFactor x 2^(k-1)
\* x 1000 ms, k being the attempt counter whatever made the earlier attempts
\* fail; after a network failure the delay is always this value, no header
\* being consulted.
C31_ExponentialBackoff ==
    /\ (Retried /\ Received /\ response.retryAfter = null) =>
           delay = <<retry.backoffFactor * Pow2(DecidedAt - 1)>>
    /\ (Retried /\ caught # NoError) =>
           delay = <<retry.backoffFactor * Pow2(DecidedAt - 1)>>

\* The second attempt failed on the network and waits twice the factor.
C31_Witness ==
    /\ pc = "sleeping"
    /\ attempt = 2
    /\ fetchCalls = 2
    /\ caught # NoError
    /\ retry.backoffFactor = 500
    /\ delay = <<1000>>

\* ---- C32 ----
\* request() has ended.
Ended == pc \in {"returned", "raised"}

\* C32: request() sleeps only between two attempts: never before the first
\* network call, never after the last one, so that every ended call has
\* slept at most (network calls - 1) times and no sleep is pending.
C32_SleepsOnlyBetweenAttempts ==
    /\ fetchCalls = 0 => sleeps = 0
    /\ sleeps <= fetchCalls
    /\ Ended => /\ sleeps <= Max(fetchCalls - 1, 0)
                /\ ~sleepPending

\* C32, amended: as above for a call that ends with a response, an API error
\* or a transport error; a call that ends because the auth strategy threw
\* while a retry was built has slept after its last network call, once per
\* network call.
C32_SleepsOnlyBetweenAttempts_Amended ==
    /\ fetchCalls = 0 => sleeps = 0
    /\ sleeps <= fetchCalls
    /\ Ended => ~sleepPending
    /\ (Ended /\ outcome.kind # "Error") => sleeps <= Max(fetchCalls - 1, 0)
    /\ (Ended /\ outcome.kind = "Error") => sleeps <= fetchCalls

\* The first attempt was retried after a sleep, and the token provider
\* returned an empty token when the second attempt was built.
C32_Witness ==
    /\ pc = "raised"
    /\ outcome.kind = "Error"
    /\ outcome.from = 2
    /\ fetchCalls = 1
    /\ sleeps = 1

\* ======================================================= concurrent calls
\* What the network does to one attempt: a response, or a thrown error.
AttemptOutcomes ==
    {[response |-> r, error |-> NoError] :
        r \in {x \in Responses : /\ x.status \in {200, 400, 503}
                                 /\ x.retryAfter = null
                                 /\ x.bodyOk}}
    \cup {[response |-> NoResponse, error |-> e] : e \in FetchErrors \cup {AbortError}}

\* Mutant: the attempt counter is a field of the transport, shared by its calls.
NextAttempt_shared(cs, c) ==
    [k \in DOMAIN cs |-> [cs[k] EXCEPT !.attempt = @ + 1]]

\* attempt++ of `for (let attempt = 1; ...)`: a local of the call.
NextAttempt(cs, c) == [cs EXCEPT ![c].attempt = @ + 1]

\* `throw` in call c.
CallRaise(cs, c, kind, statusCode, message) ==
    [cs EXCEPT ![c].pc = "raised",
               ![c].outcome = [kind |-> kind, statusCode |-> statusCode,
                               message |-> message, from |-> cs[c].attempt]]

\* `if (delay > 0) await this.sleep(delay); continue` in call c.
CallContinue(cs, c, d) ==
    IF d > 0
    THEN [cs EXCEPT ![c].pc = "sleeping", ![c].sleepPending = TRUE]
    ELSE NextAttempt([cs EXCEPT ![c].pc = "loop"], c)

\* The catch block of call c.
CallCatch(cs, c, err) ==
    LET a      == cs[c].attempt
        h      == handleTransportError(err, cs[c].method, a)
        logged == [cs EXCEPT ![c].timers = clearTimeout(@, a),
                             ![c].log = Append(@, [response |-> NoResponse,
                                                   error |-> err])]
    IN  IF h.throws
        THEN CallRaise(logged, c, "FoxnoseTransportError", 0, h.message)
        ELSE CallContinue(logged, c, h.delay)

ConcInit ==
    /\ retry \in [attempts : 0..MaxAttempts,
                  backoffFactor : {0, 500},
                  statusCodes : {{503}},
                  methods : {{"GET", "PUT"}}]
    /\ auth = "anonymous"
    /\ SingleIdle
    /\ calls = NoCalls
    /\ BatchIdle
    /\ FnIdle

CallRequest(c, m) ==
    /\ calls[c].pc = "idle"
    /\ calls' = [calls EXCEPT ![c].pc = "loop", ![c].method = m, ![c].attempt = 1]
    /\ UNCHANGED <<svars, bvars, fvars>>

CallExhausted(c) ==
    /\ calls[c].pc = "loop"
    /\ ~LoopContinues(calls[c].attempt)
    /\ calls' = CallRaise(calls, c, "FoxnoseTransportError", 0,
                          "All retry attempts exhausted")
    /\ UNCHANGED <<svars, bvars, fvars>>

CallBeginAttempt(c) ==
    /\ calls[c].pc = "loop"
    /\ LoopContinues(calls[c].attempt)
    /\ calls' = [calls EXCEPT ![c].pc = "fetching",
                              ![c].fetchCalls = @ + 1,
                              ![c].timers = setTimeout(@, calls[c].attempt)]
    /\ UNCHANGED <<svars, bvars, fvars>>

CallFetchResolves(c, r) ==
    /\ calls[c].pc = "fetching"
    /\ LET a       == calls[c].attempt
           cleared == [calls EXCEPT ![c].timers = clearTimeout(@, a),
                                    ![c].log = Append(@, [response |-> r,
                                                          error |-> NoError])]
       IN  calls' =
             IF IsErrorStatus(r.status)
             THEN IF RetriesResponse(calls[c].method, r.status, a)
                  THEN CallContinue(cleared, c, computeDelay(a, r.retryAfter))
                  ELSE CallRaise(cleared, c, "FoxnoseAPIError", r.status, "")
             ELSE [cleared EXCEPT ![c].pc = "returned",
                                  ![c].outcome = [kind |-> "payload",
                                                  statusCode |-> r.status,
                                                  message |-> "", from |-> a]]
    /\ UNCHANGED <<svars, bvars, fvars>>

CallFetchRejects(c, err) ==
    /\ calls[c].pc = "fetching"
    /\ calls' = CallCatch(calls, c, err)
    /\ UNCHANGED <<svars, bvars, fvars>>

CallTimeoutFires(c, t) ==
    /\ t \in calls[c].timers
    /\ calls' = IF calls[c].pc = "fetching" /\ t = calls[c].attempt
                THEN CallCatch(calls, c, AbortError)
                ELSE [calls EXCEPT ![c].timers = @ \ {t}]
    /\ UNCHANGED <<svars, bvars, fvars>>

CallSleepElapses(c) ==
    /\ calls[c].sleepPending
    /\ calls' = IF calls[c].pc = "sleeping"
                THEN NextAttempt([calls EXCEPT ![c].sleepPending = FALSE,
                                               ![c].pc = "loop"], c)
                ELSE [calls EXCEPT ![c].sleepPending = FALSE]
    /\ UNCHANGED <<svars, bvars, fvars>>

ConcNext ==
    \E c \in Calls :
        \/ \E m \in {"GET", "POST"} : CallRequest(c, m)
        \/ CallExhausted(c)
        \/ CallBeginAttempt(c)
        \/ \E o \in {x \in AttemptOutcomes : x.error = NoError} :
               CallFetchResolves(c, o.response)
        \/ \E err \in FetchErrors : CallFetchRejects(c, err)
        \/ \E t \in calls[c].timers : CallTimeoutFires(c, t)
        \/ CallSleepElapses(c)

ConcSpec == ConcInit /\ [][ConcNext]_vars

\* sendWithRetries run alone from attempt att against the attempt outcomes
\* of log: the number of fetch calls it makes and how it ends.
RECURSIVE RunAlone(_, _, _)
RunAlone(m, log, att) ==
    IF ~LoopContinues(att)
    THEN [done |-> TRUE, fetchCalls |-> att - 1,
          outcome |-> [kind |-> "FoxnoseTransportError", statusCode |-> 0,
                       message |-> "All retry attempts exhausted", from |-> att]]
    ELSE IF att > Len(log)
    THEN [done |-> FALSE, fetchCalls |-> att - 1, outcome |-> NoOutcome]
    ELSE LET o == log[att]
         IN  IF o.error # NoError
             THEN LET h == handleTransportError(o.error, m, att)
                  IN  IF h.throws
                      THEN [done |-> TRUE, fetchCalls |-> att,
                            outcome |-> [kind |-> "FoxnoseTransportError",
                                         statusCode |-> 0,
                                         message |-> h.message, from |-> att]]
                      ELSE RunAlone(m, log, att + 1)
             ELSE IF IsErrorStatus(o.response.status)
             THEN IF RetriesResponse(m, o.response.status, att)
                  THEN RunAlone(m, log, att + 1)
                  ELSE [done |-> TRUE, fetchCalls |-> att,
                        outcome |-> [kind |-> "FoxnoseAPIError",
                                     statusCode |-> o.response.status,
                                     message |-> "", from |-> att]]
             ELSE [done |-> TRUE, fetchCalls |-> att,
                   outcome |-> [kind |-> "payload",
                                statusCode |-> o.response.status,
                                message |-> "", from |-> att]]

\* ------------------------------------------------------------------- C14
C14_Inv ==
    \A c \in Calls :
        LET k     == calls[c]
            alone == RunAlone(k.method, k.log, 1)
        IN  /\ k.pc \in {"returned", "raised"} =>
                   /\ alone.done
                   /\ k.fetchCalls = alone.fetchCalls
                   /\ k.outcome = alone.outcome
            /\ k.pc \in {"fetching", "sleeping"} =>
                   /\ ~alone.done
                   /\ k.fetchCalls = k.attempt
                   /\ Len(k.log) = IF k.pc = "fetching" THEN k.attempt - 1
                                   ELSE k.attempt
            /\ k.timers \subseteq {k.attempt}
            /\ k.timers # {} <=> k.pc = "fetching"

C14_Step ==
    /\ retry' = retry
    /\ auth' = auth
    /\ \A c \in Calls :
           calls'[c] # calls[c] => \A d \in Calls \ {c} : calls'[d] = calls[d]

\* C14: with several request() calls running concurrently on one transport,
\* each call has its own attempt counter, timer and request state: in every
\* interleaving the number of fetch calls and the outcome of a call are
\* those of the call run alone against the same attempt outcomes, a step of
\* one call changes nothing of another, and the retry policy and the auth
\* strategy of the transport are never modified.
C14_ConcurrentCallsIndependent == []C14_Inv /\ [][C14_Step]_vars

C14_Witness ==
    /\ calls[1].pc = "fetching"
    /\ calls[1].attempt = 3
    /\ calls[2].pc = "raised"
    /\ calls[2].fetchCalls = 1
    /\ calls[2].outcome.kind = "FoxnoseTransportError"
    /\ calls[2].method = "POST"


\* =========================================================== batch upsert
\* The input lists: the external_id of each item; ids repeat within a list.
ItemLists ==
    {[j \in 1..n |-> IF j % 2 = 1 THEN "a" ELSE "b"] : n \in 0..MaxItems}

\* onProgress is not given, returns, or may throw.
OptionSets ==
    [maxConcurrency : {undefined} \cup {<<m>> : m \in 0..MaxConcurrency},
     failFast : {undefined, <<TRUE>>, <<FALSE>>},
     onProgress : {"undefined", "records", "throws"}]

\* The errors with which the request of an item rejects.
BatchErrors == {"FoxnoseAPIError", "FoxnoseTransportError"}

DefaultMaxConcurrency == 5

\* options?.maxConcurrency ?? 5
maxConcurrency ==
    IF options.maxConcurrency = undefined
    THEN DefaultMaxConcurrency
    ELSE options.maxConcurrency[1]

\* options?.failFast ?? false
failFast ==
    IF options.failFast = undefined THEN FALSE ELSE options.failFast[1]

\* A relative index of Array.prototype.slice, resolved against the length.
SliceIndex(len, k) ==
    IF k < 0 THEN Max(len + k, 0) ELSE IF k > len THEN len ELSE k

\* queue.slice(start, end), queue being [...items.entries()]: the indices.
slice(len, start, end) ==
    LET from == SliceIndex(len, start)
        to   == SliceIndex(len, end)
    IN  [j \in 1..Max(to - from, 0) |-> from + j - 1]

Range(q) == {q[j] : j \in 1..Len(q)}

\* Mutant: the entry carries the position of the item in its window.
FailedEntry_windowIndex(k, err) ==
    [index |-> k - i, external_id |-> items[k + 1], error |-> err]

\* failed.push({index, external_id: item.external_id, error})
FailedEntry(k, err) ==
    [index |-> k, external_id |-> items[k + 1], error |-> err]

\* Mutant: completed++ on success only.
CompletedAfter_successOnly(n, res) == IF res = "ok" THEN n + 1 ELSE n

\* finally { completed++ }
CompletedAfter(n, res) == n + 1

\* Promise.all over the window: rejected with the first rejection, fulfilled
\* when every promise is fulfilled.
PromiseAll(b) ==
    IF \E j \in 1..Len(b) : promise[b[j]] = "rejected"
    THEN "rejected"
    ELSE IF \A j \in 1..Len(b) : promise[b[j]] = "fulfilled"
         THEN "fulfilled"
         ELSE "pending"

\* Mutant: the catch block never breaks.
OuterCatch_noBreak(ff) == "continue"

\* catch { if (failFast) break; }
OuterCatch(ff) == IF ff THEN "break" ELSE "continue"

BatchInit ==
    /\ retry = [attempts |-> 0, backoffFactor |-> 0, statusCodes |-> {},
                methods |-> {}]
    /\ auth = "anonymous"
    /\ SingleIdle
    /\ calls = NoCalls
    /\ BatchIdle
    /\ FnIdle

\* batchUpsertResources(folderKey, items, options) up to the loop.
BatchUpsertResources(its, opts) ==
    /\ bpc = "idle"
    /\ items' = its
    /\ options' = opts
    /\ i' = 0
    /\ requests' = [k \in 0..(Len(its) - 1) |-> "unsent"]
    /\ promise' = [k \in 0..(Len(its) - 1) |-> "none"]
    /\ bpc' = "loop"
    /\ UNCHANGED <<batch, succeeded, failed, completed, progress, sends>>
    /\ UNCHANGED <<svars, calls, fvars>>

\* One iteration up to `await Promise.all(...)`: processItem is called for
\* each item of the window and sends its request at once.
StartWindow ==
    /\ bpc = "loop"
    /\ i < Len(items)
    /\ LET b == slice(Len(items), i, i + maxConcurrency)
       IN  /\ batch' = b
           /\ sends' = sends \o b
           /\ requests' = [k \in DOMAIN requests |->
                              IF k \in Range(b) THEN "pending" ELSE requests[k]]
           /\ promise' = [k \in DOMAIN promise |->
                             IF k \in Range(b) THEN "pending" ELSE promise[k]]
    /\ bpc' = "awaiting"
    /\ UNCHANGED <<items, options, i, succeeded, failed, completed, progress>>
    /\ UNCHANGED <<svars, calls, fvars>>

\* The request of item k settles with res and processItem runs to its end:
\* the push, the rethrow under failFast, completed++ and onProgress, which
\* throws when cbThrows.
ProcessItemSettles(k, res, cbThrows) ==
    /\ k \in DOMAIN requests
    /\ requests[k] = "pending"
    /\ cbThrows => options.onProgress = "throws"
    /\ requests' = [requests EXCEPT ![k] = res]
    /\ succeeded' = IF res = "ok" THEN Append(succeeded, k) ELSE succeeded
    /\ failed' = IF res = "ok" THEN failed ELSE Append(failed, FailedEntry(k, res))
    /\ completed' = CompletedAfter(completed, res)
    /\ progress' = IF options.onProgress = "undefined"
                   THEN progress
                   ELSE Append(progress, <<completed', Len(items)>>)
    /\ promise' = [promise EXCEPT ![k] =
                      IF (res # "ok" /\ failFast) \/ cbThrows
                      THEN "rejected" ELSE "fulfilled"]
    /\ UNCHANGED <<items, options, bpc, i, batch, sends>>
    /\ UNCHANGED <<svars, calls, fvars>>

\* `await Promise.all(...)` settles: on a rejection the catch block breaks
\* out of the loop (and the function returns) or goes on; then i += maxConcurrency.
WindowSettles ==
    /\ bpc = "awaiting"
    /\ PromiseAll(batch) # "pending"
    /\ IF PromiseAll(batch) = "rejected" /\ OuterCatch(failFast) = "break"
       THEN bpc' = "returned" /\ UNCHANGED i
       ELSE bpc' = "loop" /\ i' = i + maxConcurrency
    /\ UNCHANGED <<items, options, batch, requests, promise, succeeded, failed,
                   completed, progress, sends>>
    /\ UNCHANGED <<svars, calls, fvars>>

\* The loop test fails: return { succeeded, failed }.
Return ==
    /\ bpc = "loop"
    /\ ~(i < Len(items))
    /\ bpc' = "returned"
    /\ UNCHANGED <<items, options, i, batch, requests, promise, succeeded, failed,
                   completed, progress, sends>>
    /\ UNCHANGED <<svars, calls, fvars>>

BatchNext ==
    \/ \E its \in ItemLists, opts \in OptionSets : BatchUpsertResources(its, opts)
    \/ StartWindow
    \/ \E k \in DOMAIN requests, res \in {"ok"} \cup BatchErrors, cbThrows \in BOOLEAN :
           ProcessItemSettles(k, res, cbThrows)
    \/ WindowSettles
    \/ Return

BatchSpec == BatchInit /\ [][BatchNext]_vars

\* A request in flight settles.
RequestSettles ==
    \E k \in DOMAIN requests, res \in {"ok"} \cup BatchErrors, cbThrows \in BOOLEAN :
        ProcessItemSettles(k, res, cbThrows)

\* The batch call under the scheduling of the event loop: synchronous code
\* runs on, every request in flight settles, every settled await resumes.
BatchFairSpec ==
    /\ BatchSpec
    /\ WF_vars(StartWindow)
    /\ WF_vars(RequestSettles)
    /\ WF_vars(WindowSettles)
    /\ WF_vars(Return)

\* The items whose request is in flight.
InFlightItems == {k \in DOMAIN requests : requests[k] = "pending"}

\* The items whose request has completed.
CompletedItems == {k \in DOMAIN requests : requests[k] \in {"ok"} \cup BatchErrors}

\* ------------------------------------------------------------------- C16
\* C16: the items are sent in input order, in consecutive windows; no
\* request of an earlier window is in flight once the next window has
\* started, so at most maxConcurrency requests are in flight.
C16_WindowsOfMaxConcurrency ==
    /\ sends = [j \in 1..Len(sends) |-> j - 1]
    /\ InFlightItems \subseteq Range(batch)
    /\ Cardinality(InFlightItems) <= maxConcurrency

\* ------------------------------------------------------------------- C17
\* C17: with failFast off every item is sent at most once, and when the
\* call has returned every item was sent and is recorded in exactly one of
\* succeeded and failed, so |succeeded| + |failed| = |items|.
C17_EveryItemSentAndRecordedOnce ==
    ~failFast =>
        /\ \A j1, j2 \in 1..Len(sends) : sends[j1] = sends[j2] => j1 = j2
        /\ bpc = "returned" =>
               /\ Range(sends) = DOMAIN requests
               /\ \A k \in DOMAIN requests :
                      Cardinality({j \in 1..Len(succeeded) : succeeded[j] = k})
                      + Cardinality({j \in 1..Len(failed) : failed[j].index = k}) = 1
               /\ Len(succeeded) + Len(failed) = Len(items)

\* ------------------------------------------------------------------- C18
\* C18: every entry of failed carries the input index of its item, that
\* item's external_id and the error its request raised, and no index is in
\* two entries.
C18_FailedEntriesIdentifyItems ==
    /\ \A j \in 1..Len(failed) :
           /\ failed[j].index \in DOMAIN requests
           /\ failed[j].external_id = items[failed[j].index + 1]
           /\ failed[j].error \in BatchErrors
           /\ failed[j].error = requests[failed[j].index]
    /\ \A j1, j2 \in 1..Len(failed) :
           failed[j1].index = failed[j2].index => j1 = j2

C18_Witness ==
    /\ Len(failed) = 2
    /\ failed[1].index = 2
    /\ failed[2].index = 0
    /\ items[1] = items[3]
    /\ failed[1].error # failed[2].error

\* ------------------------------------------------------------------- C19
\* C19: onProgress is called once for each completed item, succeeded or
\* failed; the calls are (1, n), (2, n), ... in order, never above (n, n);
\* with failFast off, when the call has returned and nothing is in flight,
\* the last call is (n, n).
C19_ProgressCountsCompletions ==
    /\ completed = Cardinality(CompletedItems)
    /\ completed <= Len(items)
    /\ options.onProgress = "undefined" => progress = <<>>
    /\ options.onProgress # "undefined" =>
           /\ progress = [j \in 1..completed |-> <<j, Len(items)>>]
           /\ (~failFast /\ bpc = "returned" /\ InFlightItems = {} /\ Len(items) > 0) =>
                  progress[Len(progress)] = <<Len(items), Len(items)>>

C19_Witness ==
    /\ ~failFast
    /\ bpc = "returned"
    /\ progress = << <<1, 3>>, <<2, 3>>, <<3, 3>> >>
    /\ Len(failed) = 1
    /\ Len(succeeded) = 2

\* ------------------------------------------------------------------- C20
C20_Inv ==
    failFast =>
        /\ \A k \in DOMAIN requests :
               requests[k] \in BatchErrors =>
                   \E j \in 1..Len(failed) : failed[j].index = k
        /\ failed # <<>> => bpc \in {"awaiting", "returned"}

C20_Step ==
    failFast =>
        /\ failed # <<>> => sends' = sends
        /\ (bpc = "awaiting" /\ PromiseAll(batch) = "rejected" /\ bpc' # bpc) =>
               bpc' = "returned"

\* C20: with failFast on, once an item has failed no further request is
\* sent, the await on the window of the failing item ends in the return of
\* the function, and the failed list holds every item that failed.
C20_FailFastStopsLaterWindows == []C20_Inv /\ [][C20_Step]_vars

C20_Witness ==
    /\ failFast
    /\ bpc = "returned"
    /\ Len(items) = 3
    /\ sends = <<0>>
    /\ Len(failed) = 1
    /\ failed[1].index = 0

\* ------------------------------------------------------------------- C35
\* C35: when batchUpsertResources has returned, no request it started is in
\* flight (so nothing is added to succeeded or failed, and onProgress is not
\* called, after the return), for both failFast settings and every
\* maxConcurrency >= 1.
C35_NothingInFlightAtReturn ==
    (bpc = "returned" /\ maxConcurrency >= 1) => InFlightItems = {}

\* ------------------------------------------------------------------- C36
\* C36: batchUpsertResources returns for every item list and every
\* maxConcurrency, 0 included, provided each request settles.
C36_BatchTerminates == (bpc = "loop") ~> (bpc = "returned")

\* ------------------------------------------------------------------- C37
\* C37: succeeded keeps input order: the result of item k1 precedes that of
\* item k2 whenever k1 < k2 and both succeeded, for every maxConcurrency and
\* every completion order inside a window.
C37_SucceededInInputOrder ==
    \A j1, j2 \in 1..Len(succeeded) :
        j1 < j2 => succeeded[j1] < succeeded[j2]


\* ================================================== functions of the library
\* ------------------------------------------------------------ createConfig
UrlChars == {"a", ":", "/"}

\* The strings given as baseUrl.
UrlStrings == UNION {[1..n -> UrlChars] : n \in 0..MaxUrlLen}

DefaultTimeout == 30000
DEFAULT_USER_AGENT == "foxnose-sdk-js/0.1.1"

CreateConfigInputs ==
    [baseUrl : UrlStrings,
     timeout : {undefined, <<5000>>},
     userAgent : {undefined, <<"my-agent">>}]

\* Mutant: the pattern /\/$/, which removes one trailing slash.
StripTrailingSlashes_one(s) ==
    IF s # <<>> /\ s[Len(s)] = "/" THEN SubSeq(s, 1, Len(s) - 1) ELSE s

\* s.replace(/\/+$/, '')
RECURSIVE StripTrailingSlashes(_)
StripTrailingSlashes(s) ==
    IF s # <<>> /\ s[Len(s)] = "/"
    THEN StripTrailingSlashes(SubSeq(s, 1, Len(s) - 1))
    ELSE s

\* createConfig(options): throws on a falsy baseUrl.
createConfig(o) ==
    IF o.baseUrl = <<>>
    THEN [throws |-> TRUE, baseUrl |-> <<>>, timeout |-> 0, userAgent |-> ""]
    ELSE [throws |-> FALSE,
          baseUrl |-> StripTrailingSlashes(o.baseUrl),
          timeout |-> IF o.timeout = undefined THEN DefaultTimeout
                      ELSE o.timeout[1],
          userAgent |-> IF o.userAgent = undefined THEN DEFAULT_USER_AGENT
                        ELSE o.userAgent[1]]

CreateConfig(o) ==
    /\ fn = "none"
    /\ fn' = "createConfig"
    /\ arg' = o
    /\ ret' = createConfig(o)
    /\ UNCHANGED <<svars, calls, bvars>>

\* --------------------------------------------------------------- FluxClient
RECURSIVE StripLeadingSlashes(_)
\* The part /^\/+/ of prefix.replace(/^\/+|\/+$/g, '').
StripLeadingSlashes(s) ==
    IF s # <<>> /\ s[1] = "/" THEN StripLeadingSlashes(Tail(s)) ELSE s

\* cleanPrefix(prefix): the prefix without leading and trailing slashes;
\* throws when nothing is left.
cleanPrefix(prefix) ==
    LET value == StripTrailingSlashes(StripLeadingSlashes(prefix))
    IN  [throws |-> value = <<>>, value |-> value]

FluxDefaultTimeout == 15000

FluxClientInputs ==
    [baseUrl : {<<>>, <<"/">>, <<"a">>, <<"a", "/">>}, apiPrefix : UrlStrings]

\* new FluxClient(options): cleanPrefix, then createConfig.
newFluxClient(o) ==
    LET prefix == cleanPrefix(o.apiPrefix)
        config == createConfig([baseUrl |-> o.baseUrl,
                                timeout |-> <<FluxDefaultTimeout>>,
                                userAgent |-> undefined])
    IN  IF prefix.throws
        THEN [throws |-> TRUE, message |-> "apiPrefix cannot be empty",
              apiPrefix |-> <<>>, baseUrl |-> <<>>]
        ELSE IF config.throws
        THEN [throws |-> TRUE, message |-> "baseUrl must be provided",
              apiPrefix |-> <<>>, baseUrl |-> <<>>]
        ELSE [throws |-> FALSE, message |-> "",
              apiPrefix |-> prefix.value, baseUrl |-> config.baseUrl]

NewFluxClient(o) ==
    /\ fn = "none"
    /\ fn' = "FluxClient"
    /\ arg' = o
    /\ ret' = newFluxClient(o)
    /\ UNCHANGED <<svars, calls, bvars>>

\* -------------------------------------------------------------- JSON text
\* A text is a sequence of lexemes.  The lexemes of JSON: punctuation, the
\* literals, numbers, strings (written with their quotes) and white space;
\* "x" is a lexeme that is not one of JSON.
StringLexemes == {"\"message\"", "\"error_code\"", "\"detail\"", "\"m\"", "\"\""}
NumberLexemes == {"0", "5"}

\* The characters between the quotes of a string lexeme.
Unquote(lex) ==
    CASE lex = "\"message\""    -> "message"
      [] lex = "\"error_code\"" -> "error_code"
      [] lex = "\"detail\""     -> "detail"
      [] lex = "\"m\""          -> "m"
      [] OTHER                  -> ""

\* The values of JavaScript that JSON.parse yields, and undefined.
JValue(t, n, str, keys, vals) == [t |-> t, n |-> n, s |-> str, k |-> keys, m |-> vals]
JUndefined == JValue("undefined", 0, "", <<>>, <<>>)
JNull      == JValue("null", 0, "", <<>>, <<>>)
JBool(b)   == JValue("boolean", IF b THEN 1 ELSE 0, "", <<>>, <<>>)
JNum(n)    == JValue("number", n, "", <<>>, <<>>)
JStr(str)  == JValue("string", 0, str, <<>>, <<>>)
JArr(vals) == JValue("array", 0, "", <<>>, vals)
JObj(keys, vals) == JValue("object", 0, "", keys, vals)

NumberOf(lex) == IF lex = "5" THEN 5 ELSE 0

ParseFail == [ok |-> FALSE, v |-> JUndefined, p |-> 0]

\* Recursive descent over the lexemes of s from position p: the value read
\* and the position after it.
RECURSIVE ParseValue(_, _), ParseElements(_, _, _), ParseMembers(_, _, _, _)
ParseValue(s, p) ==
    IF p > Len(s) THEN ParseFail
    ELSE IF s[p] = "null"  THEN [ok |-> TRUE, v |-> JNull, p |-> p + 1]
    ELSE IF s[p] = "true"  THEN [ok |-> TRUE, v |-> JBool(TRUE), p |-> p + 1]
    ELSE IF s[p] = "false" THEN [ok |-> TRUE, v |-> JBool(FALSE), p |-> p + 1]
    ELSE IF s[p] \in NumberLexemes
         THEN [ok |-> TRUE, v |-> JNum(NumberOf(s[p])), p |-> p + 1]
    ELSE IF s[p] \in StringLexemes
         THEN [ok |-> TRUE, v |-> JStr(Unquote(s[p])), p |-> p + 1]
    ELSE IF s[p] = "["
         THEN IF p + 1 <= Len(s) /\ s[p + 1] = "]"
              THEN [ok |-> TRUE, v |-> JArr(<<>>), p |-> p + 2]
              ELSE ParseElements(s, p + 1, <<>>)
    ELSE IF s[p] = "{"
         THEN IF p + 1 <= Len(s) /\ s[p + 1] = "}"
              THEN [ok |-> TRUE, v |-> JObj(<<>>, <<>>), p |-> p + 2]
              ELSE ParseMembers(s, p + 1, <<>>, <<>>)
    ELSE ParseFail

ParseElements(s, p, vals) ==
    LET e == ParseValue(s, p)
    IN  IF ~e.ok \/ e.p > Len(s) THEN ParseFail
        ELSE IF s[e.p] = "]"
             THEN [ok |-> TRUE, v |-> JArr(Append(vals, e.v)), p |-> e.p + 1]
        ELSE IF s[e.p] = ","
             THEN ParseElements(s, e.p + 1, Append(vals, e.v))
        ELSE ParseFail

ParseMembers(s, p, keys, vals) ==
    IF p + 1 > Len(s) \/ s[p] \notin StringLexemes \/ s[p + 1] # ":"
    THEN ParseFail
    ELSE LET e == ParseValue(s, p + 2)
             ks == Append(keys, Unquote(s[p]))
         IN  IF ~e.ok \/ e.p > Len(s) THEN ParseFail
             ELSE IF s[e.p] = "}"
                  THEN [ok |-> TRUE, v |-> JObj(ks, Append(vals, e.v)), p |-> e.p + 1]
             ELSE IF s[e.p] = ","
                  THEN ParseMembers(s, e.p + 1, ks, Append(vals, e.v))
             ELSE ParseFail

\* The text without its white space between lexemes.
RECURSIVE SkipSpace(_)
SkipSpace(s) ==
    IF s = <<>> THEN <<>>
    ELSE IF Head(s) = " " THEN SkipSpace(Tail(s))
    ELSE <<Head(s)>> \o SkipSpace(Tail(s))

\* JSON.parse(text): the value, or a SyntaxError.
JSONparse(text) ==
    LET s == SkipSpace(text)
        r == ParseValue(s, 1)
    IN  IF r.ok /\ r.p = Len(s) + 1
        THEN [throws |-> FALSE, v |-> r.v]
        ELSE [throws |-> TRUE, v |-> JUndefined]

\* payload[key] of a parsed value that is not null: the value of the last
\* member with that key, undefined when there is none.
Property(v, key) ==
    LET at == {j \in 1..Len(v.k) : v.k[j] = key}
    IN  IF v.t # "object" \/ at = {} THEN JUndefined
        ELSE v.m[CHOOSE j \in at : \A h \in at : h <= j]

\* The body texts of the responses.
BodyTexts ==
    { <<>>, <<" ">>, <<"x">>, <<"null">>, <<"false">>, <<"0">>, <<"5">>,
      <<"\"m\"">>, <<"\"\"">>,
      <<"[", "]">>, <<"[", "5", "]">>, <<"[", "5", ",", "null", "]">>, <<"[", "5">>,
      <<"{", "}">>, <<"{", "}", "x">>,
      <<"{", "\"message\"", ":", "\"m\"", "}">>,
      <<"{", "\"message\"", ":", "\"\"", "}">>,
      <<"{", "\"message\"", ":", "null", "}">>,
      <<"{", "\"message\"", ":", "0", "}">>,
      <<" ", "{", "\"detail\"", ":", "5", "}", " ">>,
      <<"{", "\"message\"", ":", "\"m\"", ",", "\"error_code\"", ":", "\"m\"",
        ",", "\"detail\"", ":", "[", "5", "]", "}">>,
      <<"{", "\"message\"", ":", "\"m\"", ",", "\"message\"", ":", "\"detail\"", "}">>,
      <<"{", "\"message\"", ":", "\"m\"", ",">> }

\* ------------------------------------------------ responses and decoding
\* A raw text as a value of JavaScript: a string, held by its lexemes.
JText(text) == JValue("string", 0, "", text, <<>>)

\* The header sets of the responses, lower-cased names as Headers holds them.
ResponseHeaderSets ==
    { <<>>,
      [k \in {"content-type"} |-> "application/json"],
      [k \in {"content-type", "x-request-id"} |->
          IF k = "content-type" THEN "text/plain" ELSE "r1"] }

FnResponses ==
    [status : {200, 204, 404, 500}, text : BodyTexts, bodyOk : BOOLEAN,
     headers : ResponseHeaderSets]

\* Mutant: the test `if (!text)` dropped.
IsEmptyText_never(text) == FALSE

\* !text
IsEmptyText(text) == text = <<>>

\* maybeDecodeResponse(response, parseJson) as a function: the raw response,
\* or the decoded body, or the rejection of response.text().
DecodeBody(r, pj) ==
    IF ~pj
    THEN [throws |-> FALSE, raw |-> TRUE, bodyRead |-> FALSE, v |-> JUndefined]
    ELSE IF ~r.bodyOk
    THEN [throws |-> TRUE, raw |-> FALSE, bodyRead |-> TRUE, v |-> JUndefined]
    ELSE IF IsEmptyText(r.text)
    THEN [throws |-> FALSE, raw |-> FALSE, bodyRead |-> TRUE, v |-> JNull]
    ELSE LET parsed == JSONparse(r.text)
         IN  [throws |-> FALSE, raw |-> FALSE, bodyRead |-> TRUE,
              v |-> IF parsed.throws THEN JText(r.text) ELSE parsed.v]

MaybeDecodeResponse(r, pj) ==
    /\ fn = "none"
    /\ ~IsErrorStatus(r.status)
    /\ fn' = "maybeDecodeResponse"
    /\ arg' = [response |-> r, parseJson |-> pj]
    /\ ret' = DecodeBody(r, pj)
    /\ UNCHANGED <<svars, calls, bvars>>

\* ------------------------------------------------------------ raiseAPIError
\* value is falsy: '', 0, false, null, undefined.
Falsy(v) ==
    \/ v.t \in {"undefined", "null"}
    \/ v.t = "string" /\ v.s = "" /\ v.k = <<>>
    \/ v.t = "number" /\ v.n = 0
    \/ v.t = "boolean" /\ v.n = 0

\* responseHeaders[key] = value for each header of the response.
CopyHeaders(h) == [k \in DOMAIN h |-> h[k]]

\* new FoxnoseAPIError(options): the pieces of the Error message,
\* `${message} (status=${statusCode}${code})`, and the fields.
FoxnoseAPIError(o) ==
    [messageParts |->
         <<o.message, JText(<<" (status=">>), JNum(o.statusCode)>>
         \o (IF Falsy(o.errorCode) THEN <<>>
             ELSE <<JText(<<", error_code=">>), o.errorCode>>)
         \o <<JText(<<")">>)>>,
     statusCode |-> o.statusCode,
     errorCode |-> o.errorCode,
     detail |-> o.detail,
     responseHeaders |-> o.responseHeaders,
     responseBody |-> o.responseBody]

\* payload.message can be read: it throws a TypeError on null.
ReadsProperties(payload) == payload.t # "null"

\* raiseAPIError(response): the error it throws.
raiseAPIError(r) ==
    LET text    == IF r.bodyOk THEN r.text ELSE <<>>
        parsed  == JSONparse(text)
        isJson  == r.bodyOk /\ text # <<>> /\ ~parsed.throws
                   /\ ReadsProperties(parsed.v)
        field   == Property(parsed.v, "message")
        message == IF isJson /\ field.t \notin {"undefined", "null"}
                   THEN field ELSE JText(text)
        body    == IF ~r.bodyOk \/ text = <<>> THEN JUndefined
                   ELSE IF isJson THEN parsed.v ELSE JText(text)
    IN  FoxnoseAPIError(
            [message |-> IF Falsy(message) THEN JText(<<"API request failed">>)
                         ELSE message,
             statusCode |-> r.status,
             errorCode |-> IF isJson THEN Property(parsed.v, "error_code")
                           ELSE JUndefined,
             detail |-> IF isJson THEN Property(parsed.v, "detail") ELSE JUndefined,
             responseHeaders |-> CopyHeaders(r.headers),
             responseBody |-> body])

RaiseAPIError(r) ==
    /\ fn = "none"
    /\ IsErrorStatus(r.status)
    /\ fn' = "raiseAPIError"
    /\ arg' = [response |-> r]
    /\ ret' = raiseAPIError(r)
    /\ UNCHANGED <<svars, calls, bvars>>

\* ------------------------------------------- methods returning a bare list
\* The methods that read `(await this.request(...)) ?? []`.
NullishDefaulted ==
    {"listOrganizations", "listRegions", "listLocales",
     "listManagementRolePermissions", "listFluxRolePermissions",
     "listManagementPermissionObjects", "listFluxPermissionObjects"}

\* The methods that read `await this.request(...)` as it is.
NotDefaulted == {"replaceManagementRolePermissions", "replaceFluxRolePermissions"}

ListMethods == NullishDefaulted \cup NotDefaulted

\* Array.isArray(payload) ? payload : [payload]
ArrayOrWrapped(payload) ==
    IF payload.t = "array" THEN payload ELSE JArr(<<payload>>)

\* The list the method returns for the payload decoded by request().
ListResult(name, payload) ==
    IF name \in NullishDefaulted /\ payload.t \in {"null", "undefined"}
    THEN ArrayOrWrapped(JArr(<<>>))
    ELSE ArrayOrWrapped(payload)

ListMethod(name, r) ==
    /\ fn = "none"
    /\ ~IsErrorStatus(r.status)
    /\ r.bodyOk
    /\ fn' = name
    /\ arg' = [response |-> r, payload |-> DecodeBody(r, TRUE).v]
    /\ ret' = ListResult(name, DecodeBody(r, TRUE).v)
    /\ UNCHANGED <<svars, calls, bvars>>

\* ----------------------------------------------------- JWTAuth.buildHeaders
\* options?.scheme of the JWTAuth constructor.
SchemeOptions == {undefined, <<"Token">>, <<"">>}

\* What a token provider may return.
Tokens == {"", "tok-1", "tok-2"}

\* this.scheme = options?.scheme ?? 'Bearer'
SchemeOf(o) == IF o = undefined THEN "Bearer" ELSE o[1]

\* const token = this.provider.getToken(): the token of the k-th call is the
\* one the provider returns to that call.
TokenUsed(provided, k) == provided[k]

\* JWTAuth.buildHeaders, with the token the provider returned.
jwtBuildHeaders(scheme, token) ==
    IF token = ""
    THEN [throws |-> TRUE,
          error |-> [kind |-> "Error",
                     message |-> "Token provider returned an empty token"],
          headers |-> <<>>]
    ELSE [throws |-> FALSE,
          error |-> [kind |-> "", message |-> ""],
          headers |-> [h \in {"Authorization"} |-> <<scheme, " ", token>>]]

\* One more call of buildHeaders on a JWTAuth built with options o; the
\* provider returns tok.  arg.provided logs what getToken() returned.
JWTBuildHeaders(o, tok) ==
    /\ \/ fn = "none"
       \/ fn = "JWTAuth.buildHeaders" /\ arg.options = o /\ Len(ret) < MaxCalls
    /\ fn' = "JWTAuth.buildHeaders"
    /\ LET provided == IF fn = "none" THEN <<tok>> ELSE Append(arg.provided, tok)
           done     == IF fn = "none" THEN <<>> ELSE ret
       IN  /\ arg' = [options |-> o, provided |-> provided]
           /\ ret' = Append(done,
                            jwtBuildHeaders(SchemeOf(o),
                                            TokenUsed(provided, Len(done) + 1)))
    /\ UNCHANGED <<svars, calls, bvars>>

\* ------------------------------------------------ SecureKeyAuth.buildHeaders
\* The request views handed to buildHeaders.  url is given by what
\* `new URL(request.url)` makes of it: it throws, or yields pathname and
\* search.  The transport builds path and url from the same parts; other
\* callers may pass views where they disagree.
RequestViews ==
    LET locations ==
            {[parses |-> TRUE, pathname |-> pn, search |-> q, path |-> pn \o q] :
                 pn \in {<<"/a">>, <<"/b">>}, q \in {<<>>, <<"?q">>}}
            \cup {[parses |-> FALSE, pathname |-> <<>>, search |-> <<>>, path |-> pa] :
                      pa \in {<<>>, <<"/a">>, <<"/b">>}}
            \cup {[parses |-> TRUE, pathname |-> <<"/a">>, search |-> <<>>,
                   path |-> <<"/b">>]}
    IN  {[url |-> [parses |-> l.parses, pathname |-> l.pathname, search |-> l.search],
          path |-> l.path, body |-> b] :
             l \in locations, b \in {undefined, <<<<>>>>, <<<<1>>>>}}

\* What the clock returns: a Date, in seconds and milliseconds.
Dates == [sec : {0, 60}, ms : {0, 500}]

\* The per-signature secret number the ECDSA signer of node:crypto draws at
\* random for each signature.
Nonces == {1, 2}

\* request.body ?? new Uint8Array(0)
BodyBytes(req) == IF req.body = undefined THEN <<>> ELSE req.body[1]

\* now.toISOString().replace(/\.\d{3}Z$/, 'Z'): the time to the second.
Timestamp(now) == <<now.sec, "Z">>

\* The path that is signed: pathname and search of the URL; request.path (or
\* '/') when the URL does not parse.
SignedPath(req) ==
    IF req.url.parses
    THEN (IF req.url.pathname = <<>> THEN <<"/">> ELSE req.url.pathname)
             \o req.url.search
    ELSE IF req.path = <<>> THEN <<"/">> ELSE req.path

\* createHash('sha256').update(body).digest('hex'): taken as collision free.
sha256hex(bytes) == [sha256 |-> bytes]

\* `${path}|${bodyHash}|${timestamp}`
DataToSign(req, now) ==
    <<SignedPath(req), "|", sha256hex(BodyBytes(req)), "|", Timestamp(now)>>

\* signer.sign(...).toString('base64'): an ECDSA signature of data made with
\* the secret number k.
Sign(data, k) == [signed |-> data, k |-> k]

PublicKey == "public"

\* SecureKeyAuth.buildHeaders; k is the number the signer draws.
secureBuildHeaders(req, now, k) ==
    [Authorization |-> <<"Secure ", PublicKey, ":", Sign(DataToSign(req, now), k)>>,
     Date |-> Timestamp(now)]

\* The first or the second call of buildHeaders on one SecureKeyAuth whose
\* clock returns now to this call.
SecureBuildHeaders(req, now, k) ==
    /\ \/ fn = "none"
       \/ fn = "SecureKeyAuth.buildHeaders" /\ Len(ret) = 1
    /\ fn' = "SecureKeyAuth.buildHeaders"
    /\ arg' = (IF fn = "none" THEN <<>> ELSE arg) \o <<[request |-> req, now |-> now]>>
    /\ ret' = (IF fn = "none" THEN <<>> ELSE ret) \o <<secureBuildHeaders(req, now, k)>>
    /\ UNCHANGED <<svars, calls, bvars>>

\* ------------------------------------------- HttpTransport.buildRequest
\* A JavaScript object whose values are strings (a header record) is the
\* sequence of its <<key, value>> entries in insertion order.
RECURSIVE ObjectAssign(_, _)
\* Object.assign(target, source): a key of the target keeps its place and
\* takes the new value, a new key is added at the end.
ObjectAssign(target, source) ==
    IF source = <<>> THEN target
    ELSE LET e  == Head(source)
             at == {j \in 1..Len(target) : target[j][1] = e[1]}
             t2 == IF at = {} THEN Append(target, e)
                   ELSE [j \in 1..Len(target) |->
                            IF j \in at THEN e ELSE target[j]]
         IN  ObjectAssign(t2, Tail(source))

\* headers[key]: undefined (here <<>>) when the object has no such key.
Get(headers, key) ==
    LET at == {j \in 1..Len(headers) : headers[j][1] = key}
    IN  IF at = {} THEN undefined ELSE <<headers[CHOOSE j \in at : TRUE][2]>>

\* headers[key] = headers[key] ?? value
SetIfNullish(headers, key, value) ==
    IF Get(headers, key) = undefined
    THEN ObjectAssign(headers, <<<<key, value>>>>)
    ELSE headers

\* The header name in lower case, as fetch compares names.
LowerName(name) ==
    CASE name = "User-Agent"    -> "user-agent"
      [] name = "Content-Type"  -> "content-type"
      [] name = "Authorization" -> "authorization"
      [] name = "Date"          -> "date"
      [] name = "X-A"           -> "x-a"
      [] OTHER                  -> name

\* config.defaultHeaders
DefaultHeaderSets ==
    { undefined,
      <<<<>>>>,
      <<<<<<"User-Agent", "d-ua">>>>>>,
      <<<<<<"User-Agent", "">>>>>>,
      <<<<<<"user-agent", "d-ua">>>>>>,
      <<<<<<"Content-Type", "d-ct">>>>>>,
      <<<<<<"X-A", "d-xa">>>>>>,
      <<<<<<"User-Agent", "d-ua">>, <<"Content-Type", "d-ct">>, <<"X-A", "d-xa">>>>>> }

\* options.headers
CallHeaderSets ==
    { undefined,
      <<<<<<"Content-Type", "c-ct">>>>>>,
      <<<<<<"Content-Type", "">>>>>>,
      <<<<<<"content-type", "c-ct">>>>>>,
      <<<<<<"User-Agent", "c-ua">>>>>>,
      <<<<<<"authorization", "c-auth">>>>>>,
      <<<<<<"Authorization", "c-auth">>>>>>,
      <<<<<<"X-A", "c-xa">>, <<"Content-Type", "c-ct">>>>>> }

\* What this.auth.buildHeaders returns: AnonymousAuth {}, JWTAuth the
\* Authorization header, SecureKeyAuth Authorization and Date, a strategy of
\* the caller any header.
AuthHeaderSets ==
    { <<>>,
      <<<<"Authorization", "a-auth">>>>,
      <<<<"Authorization", "a-auth">>, <<"Date", "a-date">>>>,
      <<<<"Authorization", "a-auth">>, <<"X-A", "a-xa">>>> }

\* options.jsonBody
JsonBodies ==
    { JUndefined, JNull, JNum(5), JStr("m"),
      JObj(<<"m">>, <<JArr(<<JNum(0), JBool(TRUE)>>)>>) }

\* options.content: undefined, or a Uint8Array (boxed).
Contents == {undefined, <<<<>>>>, <<<<1, 2>>>>}

\* The values of query parameters.
ParamValues == {JUndefined, JNull, JNum(0), JBool(FALSE), JStr(""), JStr("a b")}
ParamKeys == <<"p", "q", "r", "s">>

\* options.params: undefined, or an object given by its entries.
ParamSets ==
    {undefined}
    \cup {<<[j \in DOMAIN f |-> <<ParamKeys[j], f[j]>>]>> :
              f \in UNION {[1..n -> ParamValues] : n \in 0..MaxParams}}

\* String(value), for the values in use.
StringOf(v) ==
    CASE v.t = "undefined" -> "undefined"
      [] v.t = "null"      -> "null"
      [] v.t = "number"    -> (IF v.n = 0 THEN "0" ELSE "5")
      [] v.t = "boolean"   -> (IF v.n = 1 THEN "true" ELSE "false")
      [] OTHER             -> v.s

\* application/x-www-form-urlencoded serialization of the strings in use: a
\* space becomes '+'.
FormEncode(str) == IF str = "a b" THEN "a+b" ELSE str

RECURSIVE SearchParamsToString(_)
\* URLSearchParams.prototype.toString of a list of <<name, value>> pairs of
\* strings: name=value joined by '&'.
SearchParamsToString(pairs) ==
    IF pairs = <<>> THEN <<>>
    ELSE <<FormEncode(pairs[1][1]), "=", FormEncode(pairs[1][2])>>
         \o (IF Len(pairs) = 1 THEN <<>>
             ELSE <<"&">> \o SearchParamsToString(Tail(pairs)))

\* Mutant: `if (value)`, which also drops 0, false and ''.
KeepsParam_truthy(v) == ~Falsy(v)

\* value !== undefined && value !== null
KeepsParam(v) == v.t \notin {"undefined", "null"}

RECURSIVE AppendedParams(_)
\* The pairs searchParams.append(key, String(value)) is called with.
AppendedParams(entries) ==
    IF entries = <<>> THEN <<>>
    ELSE (IF KeepsParam(entries[1][2])
          THEN <<<<entries[1][1], StringOf(entries[1][2])>>>>
          ELSE <<>>)
         \o AppendedParams(Tail(entries))

\* new URLSearchParams(record): every value converted to a string.
SearchParamsOfRecord(entries) ==
    [j \in 1..Len(entries) |-> <<entries[j][1], StringOf(entries[j][2])>>]

BaseUrl == "https://h"
Paths == {"/v1", ""}

\* HttpTransport.buildUrl: the URL as the sequence of its pieces.
buildUrl(path, params) ==
    LET base == <<BaseUrl, path>>
    IN  IF params = undefined \/ params[1] = <<>>
        THEN base
        ELSE LET qs == SearchParamsToString(AppendedParams(params[1]))
             IN  IF qs # <<>> THEN base \o <<"?">> \o qs ELSE base

\* The lexeme of a string value.
Quote(str) ==
    CASE str = "message"    -> "\"message\""
      [] str = "error_code" -> "\"error_code\""
      [] str = "detail"     -> "\"detail\""
      [] str = "m"          -> "\"m\""
      [] OTHER              -> "\"\""

RECURSIVE JSONstringify(_), StringifyElements(_), StringifyMembers(_, _)
\* JSON.stringify(value), as the sequence of the lexemes of the text.
JSONstringify(v) ==
    CASE v.t = "null"    -> <<"null">>
      [] v.t = "boolean" -> <<IF v.n = 1 THEN "true" ELSE "false">>
      [] v.t = "number"  -> <<IF v.n = 0 THEN "0" ELSE "5">>
      [] v.t = "string"  -> <<Quote(v.s)>>
      [] v.t = "array"   -> <<"[">> \o StringifyElements(v.m) \o <<"]">>
      [] v.t = "object"  -> <<"{">> \o StringifyMembers(v.k, v.m) \o <<"}">>

StringifyElements(vals) ==
    IF vals = <<>> THEN <<>>
    ELSE JSONstringify(Head(vals))
         \o (IF Len(vals) = 1 THEN <<>>
             ELSE <<",">> \o StringifyElements(Tail(vals)))

StringifyMembers(keys, vals) ==
    IF keys = <<>> THEN <<>>
    ELSE <<Quote(Head(keys)), ":">> \o JSONstringify(Head(vals))
         \o (IF Len(keys) = 1 THEN <<>>
             ELSE <<",">> \o StringifyMembers(Tail(keys), Tail(vals)))

\* The UTF-8 bytes of a lexeme.
Utf8(lex) ==
    CASE lex = "null"  -> <<110, 117, 108, 108>>
      [] lex = "true"  -> <<116, 114, 117, 101>>
      [] lex = "false" -> <<102, 97, 108, 115, 101>>
      [] lex = "0"     -> <<48>>
      [] lex = "5"     -> <<53>>
      [] lex = "["     -> <<91>>
      [] lex = "]"     -> <<93>>
      [] lex = "{"     -> <<123>>
      [] lex = "}"     -> <<125>>
      [] lex = ","     -> <<44>>
      [] lex = ":"     -> <<58>>
      [] lex = "\"m\"" -> <<34, 109, 34>>
      [] OTHER         -> <<34, 34>>

RECURSIVE TextEncoderEncode(_)
\* new TextEncoder().encode(text)
TextEncoderEncode(text) ==
    IF text = <<>> THEN <<>>
    ELSE Utf8(Head(text)) \o TextEncoderEncode(Tail(text))

\* Mutant: content, when given, is preferred to jsonBody.
UsesJsonBody_unlessContent(jsonBody, content) ==
    jsonBody # JUndefined /\ content = undefined

\* options?.jsonBody !== undefined
UsesJsonBody(jsonBody, content) == jsonBody # JUndefined

NoBodyInit == [kind |-> "undefined", text |-> <<>>, bytes |-> <<>>]

\* HttpTransport.buildRequest for options o = [defaultHeaders, headers,
\* jsonBody, content, params], the auth strategy returning authHeaders.
\* The result holds url, init = [method, headers, body], body and the
\* requestData given to the auth strategy.
buildRequest(m, path, o, authHeaders) ==
    LET h0 == IF o.defaultHeaders # undefined
              THEN ObjectAssign(<<>>, o.defaultHeaders[1]) ELSE <<>>
        h1 == SetIfNullish(h0, "User-Agent", DEFAULT_USER_AGENT)
        h2 == IF o.headers # undefined THEN ObjectAssign(h1, o.headers[1]) ELSE h1
        json == UsesJsonBody(o.jsonBody, o.content)
        jsonStr == JSONstringify(o.jsonBody)
        body == IF json THEN TextEncoderEncode(jsonStr)
                ELSE IF o.content # undefined THEN o.content[1]
                ELSE <<>>
        bodyInit == IF json
                    THEN [kind |-> "string", text |-> jsonStr, bytes |-> <<>>]
                    ELSE IF o.content # undefined
                    THEN [kind |-> "bytes", text |-> <<>>, bytes |-> o.content[1]]
                    ELSE NoBodyInit
        h3 == IF json THEN SetIfNullish(h2, "Content-Type", "application/json")
              ELSE h2
        url == buildUrl(path, o.params)
        requestData ==
            [method |-> toUpperCase(m),
             url |-> url,
             path |-> <<path>> \o
                      (IF o.params # undefined
                       THEN <<"?">> \o SearchParamsToString(SearchParamsOfRecord(o.params[1]))
                       ELSE <<>>),
             body |-> body]
        h4 == ObjectAssign(h3, authHeaders)
    IN  [url |-> url,
         init |-> [method |-> toUpperCase(m), headers |-> h4, body |-> bodyInit],
         body |-> body,
         requestData |-> requestData]

\* The entries of the header record sent under one name: fetch compares
\* header names without regard to case and combines the values of entries
\* whose names agree, in the order of the record.
RECURSIVE HeaderValuesSent(_, _)
HeaderValuesSent(headers, lname) ==
    IF headers = <<>> THEN <<>>
    ELSE (IF LowerName(headers[1][1]) = lname THEN <<headers[1][2]>> ELSE <<>>)
         \o HeaderValuesSent(Tail(headers), lname)

\* The bytes fetch sends as the body for init.body: the UTF-8 bytes of a
\* string, the bytes of a Uint8Array, none for undefined.
BodySent(bodyInit) ==
    CASE bodyInit.kind = "string" -> TextEncoderEncode(bodyInit.text)
      [] bodyInit.kind = "bytes"  -> bodyInit.bytes
      [] OTHER                    -> <<>>

\* The options the model applies buildRequest to: every combination of
\* header sources with a fixed body and no params, and every combination of
\* bodies and params with fixed headers.
BuildRequestInputs ==
    [method : {"post"}, path : {"/v1"},
     defaultHeaders : DefaultHeaderSets, headers : CallHeaderSets,
     jsonBody : {JUndefined, JNum(5)}, content : {undefined},
     params : {undefined}, authHeaders : AuthHeaderSets]
    \cup
    [method : {"post"}, path : Paths,
     defaultHeaders : {undefined}, headers : {undefined},
     jsonBody : JsonBodies, content : Contents,
     params : ParamSets, authHeaders : {<<>>}]

BuildRequest(o) ==
    /\ fn = "none"
    /\ fn' = "buildRequest"
    /\ arg' = o
    /\ ret' = buildRequest(o.method, o.path, o, o.authHeaders)
    /\ UNCHANGED <<svars, calls, bvars>>


\* ------------------------------------- sendWithRetries: one build per attempt
\* The arguments of one request() call whose attempts are followed.
AttemptInputs ==
    [method : {"post", "GET"}, path : {"/v1"},
     defaultHeaders : {undefined},
     headers : {undefined, <<<<<<"authorization", "c-auth">>>>>>},
     jsonBody : {JUndefined, JNum(5)}, content : {undefined, <<<<1, 2>>>>},
     params : {undefined, << << <<"p", JStr("a b")>>, <<"q", JNull>> >> >>}]

\* Mutant: the params are dropped from the retries.
OptionsAt_paramsOnce(o, k) ==
    IF k = 1 THEN o ELSE [o EXCEPT !.params = undefined]

\* this.buildRequest(method, path, options) in iteration k of the loop: the
\* arguments of the call, the same in every iteration.
OptionsAt(o, k) == o

\* The buildRequest of one more attempt of the call with arguments o, the
\* auth strategy returning a this time.
BuildRequestPerAttempt(o, a) ==
    /\ \/ fn = "none"
       \/ fn = "sendWithRetries" /\ arg.options = o /\ Len(ret) < MaxAttempts
    /\ fn' = "sendWithRetries"
    /\ LET k == IF fn = "none" THEN 1 ELSE Len(ret) + 1
       IN  /\ arg' = [options |-> o,
                      authHeaders |-> (IF fn = "none" THEN <<>> ELSE arg.authHeaders)
                                      \o <<a>>]
           /\ ret' = (IF fn = "none" THEN <<>> ELSE ret)
                     \o <<buildRequest(o.method, o.path, OptionsAt(o, k), a)>>
    /\ UNCHANGED <<svars, calls, bvars>>

FnInit ==
    /\ retry = [attempts |-> 0, backoffFactor |-> 0, statusCodes |-> {},
                methods |-> {}]
    /\ auth = "anonymous"
    /\ SingleIdle
    /\ calls = NoCalls
    /\ BatchIdle
    /\ FnIdle

FnNext ==
    \/ \E o \in CreateConfigInputs : CreateConfig(o)
    \/ \E o \in FluxClientInputs : NewFluxClient(o)
    \/ \E r \in FnResponses, pj \in BOOLEAN : MaybeDecodeResponse(r, pj)
    \/ \E r \in FnResponses : RaiseAPIError(r)
    \/ \E name \in ListMethods, r \in FnResponses : ListMethod(name, r)
    \/ \E o \in SchemeOptions, tok \in Tokens : JWTBuildHeaders(o, tok)
    \/ \E req \in RequestViews, now \in Dates, k \in Nonces :
           SecureBuildHeaders(req, now, k)
    \/ \E o \in BuildRequestInputs : BuildRequest(o)
    \/ \E o \in AttemptInputs, a \in AuthHeaderSets : BuildRequestPerAttempt(o, a)

FnSpec == FnInit /\ [][FnNext]_vars

\* ------------------------------------------------------------------- C27
\* s ends with t.
EndsWith(s, t) ==
    Len(t) <= Len(s) /\ SubSeq(s, Len(s) - Len(t) + 1, Len(s)) = t

C24_DecodesBodyWithoutRaising ==
    fn = "maybeDecodeResponse" =>
        LET text == arg.response.text
        IN  /\ ~arg.parseJson => ret.raw /\ ~ret.bodyRead /\ ~ret.throws
            /\ (arg.parseJson /\ arg.response.bodyOk) =>
                   /\ ~ret.throws
                   /\ ~ret.raw
                   /\ text = <<>> => ret.v = JNull
                   /\ (text # <<>> /\ ~JSONparse(text).throws) =>
                          ret.v = JSONparse(text).v
                   /\ (text # <<>> /\ JSONparse(text).throws) =>
                          ret.v.t = "string" /\ ret.v.k = text

C24_Witness ==
    /\ fn = "maybeDecodeResponse"
    /\ arg.parseJson
    /\ arg.response.text = <<"{", "}", "x">>
    /\ ret.v = JText(<<"{", "}", "x">>)

\* ------------------------------------------------------------------- C25
\* The message the claim describes: the body's message field when the body
\* parses as JSON and has one (a field that is neither missing nor null),
\* else the raw text; 'API request failed' when that is empty (falsy).
ClaimedMessage(r) ==
    LET parsed == JSONparse(r.text)
        has    == r.bodyOk /\ ~parsed.throws
                  /\ Property(parsed.v, "message").t \notin {"undefined", "null"}
        m      == IF has THEN Property(parsed.v, "message")
                  ELSE JText(IF r.bodyOk THEN r.text ELSE <<>>)
    IN  IF Falsy(m) THEN JText(<<"API request failed">>) ELSE m

\* C25: the API error carries the status code and all response headers; its
\* message starts with the message described above; errorCode and detail are
\* the body's error_code and detail fields; responseBody is the parsed body,
\* or the raw text when parsing fails; an unreadable body still gives the
\* error with the status code.
C25_APIErrorCarriesBody ==
    fn = "raiseAPIError" =>
        LET r      == arg.response
            parsed == JSONparse(r.text)
        IN  /\ ret.statusCode = r.status
            /\ ret.responseHeaders = r.headers
            /\ ret.messageParts[1] = ClaimedMessage(r)
            /\ (r.bodyOk /\ ~parsed.throws) =>
                   /\ ret.errorCode = Property(parsed.v, "error_code")
                   /\ ret.detail = Property(parsed.v, "detail")
                   /\ ret.responseBody = parsed.v
            /\ (r.bodyOk /\ r.text # <<>> /\ parsed.throws) =>
                   ret.responseBody = JText(r.text)

\* ------------------------------------------------------------------- C30
\* C30: every method that normalizes to a bare list returns an array: an
\* array payload as it is, a single value wrapped in a one-element array,
\* the empty array for an empty response body (decoded as null).
C30_BareListForEveryPayload ==
    fn \in ListMethods =>
        /\ ret.t = "array"
        /\ arg.payload.t = "array" => ret = arg.payload
        /\ arg.payload.t = "null" => ret = JArr(<<>>)
        /\ arg.payload.t \notin {"array", "null"} => ret = JArr(<<arg.payload>>)

\* ------------------------------------------------------------------- C28
\* C28: every call of JWTAuth.buildHeaders asks the provider for a token; on
\* an empty token the call fails with an error of the library's
\* authentication-error kind, otherwise it returns exactly one header,
\* Authorization: '<scheme> <token>', the scheme being 'Bearer' unless one
\* was configured.
C28_JWTHeaderOrAuthError ==
    fn = "JWTAuth.buildHeaders" =>
        /\ Len(arg.provided) = Len(ret)
        /\ \A k \in 1..Len(ret) :
              IF arg.provided[k] = ""
              THEN ret[k].throws /\ ret[k].error.kind = "FoxnoseAuthError"
              ELSE /\ ~ret[k].throws
                   /\ DOMAIN ret[k].headers = {"Authorization"}
                   /\ ret[k].headers["Authorization"] =
                          <<IF arg.options = undefined THEN "Bearer"
                            ELSE arg.options[1],
                            " ", arg.provided[k]>>

\* ------------------------------------------------------------------- C29
\* The signature of the k-th call, and what precedes it in the header.
Signature(k) == ret[k].Authorization[4]
KeyPrefix(k) == SubSeq(ret[k].Authorization, 1, 3)

\* The two calls differ in exactly one of the clock, the path (url and path
\* of the view) and the body.
DifferInOne ==
    LET a == arg[1]
        b == arg[2]
        clock == a.now # b.now
        path  == <<a.request.url, a.request.path>> # <<b.request.url, b.request.path>>
        body  == a.request.body # b.request.body
    IN  \/ clock /\ ~path /\ ~body
        \/ ~clock /\ path /\ ~body
        \/ ~clock /\ ~path /\ body

\* C29: with a fixed clock, two calls of SecureKeyAuth.buildHeaders on
\* identical request views give identical headers; when only the clock,
\* only the path or only the body changes, the signature changes and the
\* 'Secure <public>:' prefix of the Authorization header stays the same.
C29_SignatureIdempotent ==
    (fn = "SecureKeyAuth.buildHeaders" /\ Len(ret) = 2) =>
        /\ arg[1] = arg[2] => ret[1] = ret[2]
        /\ DifferInOne =>
               /\ Signature(1) # Signature(2)
               /\ KeyPrefix(1) = KeyPrefix(2)

\* ------------------------------------------------------------------- C22
\* The entry's value is neither undefined nor null.
NotNullish(e) == e[2].t \notin {"undefined", "null"}

\* C22: the URL is baseUrl + path followed by '?' and the encoded pairs, in
\* order, of exactly the params whose value is neither undefined nor null,
\* the values stringified (0, false and '' are kept); with params missing,
\* empty or holding only null/undefined values the URL is baseUrl + path,
\* without '?'.
C22_UrlKeepsNonNullParams ==
    fn = "buildRequest" =>
        LET entries == IF arg.params = undefined THEN <<>> ELSE arg.params[1]
            kept    == SelectSeq(entries, NotNullish)
            pairs   == [j \in 1..Len(kept) |->
                           <<kept[j][1], StringOf(kept[j][2])>>]
        IN  /\ kept # <<>> =>
                   ret.url = <<BaseUrl, arg.path, "?">> \o SearchParamsToString(pairs)
            /\ kept = <<>> => ret.url = <<BaseUrl, arg.path>>
            /\ Cardinality({j \in 1..Len(ret.url) : ret.url[j] = "="}) = Len(kept)

C22_Witness ==
    /\ fn = "buildRequest"
    /\ arg.params = << << <<"p", JNum(0)>>, <<"q", JNull>> >> >>
    /\ ret.url = <<BaseUrl, "/v1", "?", "p", "=", "0">>

\* ------------------------------------------------------------------- C23
\* C23: with jsonBody supplied (null included, content given or not) the
\* body sent is the serialized JSON text; else content, when given, is sent
\* as it is; else no body is sent.  The bytes handed to the auth strategy
\* are the bytes of the body sent, the empty sequence when there is none.
C23_BodySentIsBodySigned ==
    fn = "buildRequest" =>
        /\ arg.jsonBody # JUndefined =>
               /\ ret.init.body.kind = "string"
               /\ JSONparse(ret.init.body.text) = [throws |-> FALSE, v |-> arg.jsonBody]
               /\ BodySent(ret.init.body) = TextEncoderEncode(JSONstringify(arg.jsonBody))
        /\ (arg.jsonBody = JUndefined /\ arg.content # undefined) =>
               BodySent(ret.init.body) = arg.content[1]
        /\ (arg.jsonBody = JUndefined /\ arg.content = undefined) =>
               ret.init.body = NoBodyInit /\ BodySent(ret.init.body) = <<>>
        /\ ret.requestData.body = BodySent(ret.init.body)
        /\ ret.body = ret.requestData.body

C23_Witness ==
    /\ fn = "buildRequest"
    /\ arg.jsonBody = JNull
    /\ arg.content = << <<1, 2>> >>
    /\ BodySent(ret.init.body) = <<110, 117, 108, 108>>
    /\ ret.requestData.body = <<110, 117, 108, 108>>

\* ------------------------------------------------------------------- C21
\* The header record of a source that may be missing.
Entries(source) == IF source = undefined THEN <<>> ELSE source[1]

\* The value the priority order gives the header name: that of the highest
\* source defining it among auth, per-call and default headers; else the
\* default User-Agent; else, for a JSON body, application/json as
\* Content-Type; <<>> when no source defines the name.
ValueByPriority(lname) ==
    LET a == HeaderValuesSent(arg.authHeaders, lname)
        c == HeaderValuesSent(Entries(arg.headers), lname)
        d == HeaderValuesSent(Entries(arg.defaultHeaders), lname)
    IN  IF a # <<>> THEN a
        ELSE IF c # <<>> THEN c
        ELSE IF d # <<>> THEN d
        ELSE IF lname = "user-agent" THEN <<DEFAULT_USER_AGENT>>
        ELSE IF lname = "content-type" /\ arg.jsonBody # JUndefined
             THEN <<"application/json">>
        ELSE <<>>

\* C21: for every header name the value sent is the one of the
\* highest-priority source defining it, in the order configuration default
\* headers < default User-Agent (only when the defaults set no User-Agent) <
\* per-call headers < auth-computed headers; a JSON body adds Content-Type:
\* application/json only when neither the defaults nor the per-call headers
\* set Content-Type.
C21_HeaderPriority ==
    fn = "buildRequest" =>
        \A lname \in {"user-agent", "content-type", "authorization", "date", "x-a"} :
            HeaderValuesSent(ret.init.headers, lname) = ValueByPriority(lname)

\* ------------------------------------------------------------------- C33
\* The auth strategy computed the header in attempt k.
AuthComputed(k, lname) == HeaderValuesSent(arg.authHeaders[k], lname) # <<>>

C34_ViewPathIsUrlPath ==
    fn = "buildRequest" =>
        ret.requestData.path = SubSeq(ret.url, 2, Len(ret.url))

\* ------------------------------------------------------------------- C38
\* The string is empty or made of slashes only.
OnlySlashes(s) == \A j \in 1..Len(s) : s[j] = "/"

\* C38: no client is constructed with an empty base URL or an empty API
\* prefix: createConfig raises whenever the base URL is empty or made of
\* slashes only, FluxClient raises 'apiPrefix cannot be empty' whenever the
\* prefix is empty or made of slashes only.
C38_NoEmptyBaseUrlOrPrefix ==
    /\ fn = "createConfig" =>
           /\ OnlySlashes(arg.baseUrl) => ret.throws
           /\ ~ret.throws => ret.baseUrl # <<>>
    /\ fn = "FluxClient" =>
           /\ OnlySlashes(arg.apiPrefix) =>
                  ret.throws /\ ret.message = "apiPrefix cannot be empty"
           /\ ~ret.throws => ret.apiPrefix # <<>> /\ ret.baseUrl # <<>>

====
